---- MODULE Spec2Model ----
(***************************************************************************)
(* Model of chatd: the Suno job tracker (context.bot_data['song_tasks']    *)
(* with the self-rescheduling run_once poll check_song_automatically) and  *)
(* the batched, rename-based persistence of message_store.                 *)
(***************************************************************************)
EXTENDS Integers, Sequences, FiniteSets, Bags, TLC

VARIABLES
    song_tasks,     \* context.bot_data['song_tasks']: task_id -> entry
    job_queue,      \* context.job_queue: bag of pending run_once jobs
    running,        \* polls suspended at an await of their terminal branch
    sink,           \* bag of messages context.bot has sent for tracked jobs
    submits,        \* history: successful submissions per task_id
    lastSubmit,     \* history: the submission handled last
    npolls,         \* history: number of polls fired
    hist,           \* history: per task_id, where its completed polls stand
    last,           \* history: the poll completed last
    checking        \* the poll that stands in requests.get of the status

trackerVars == <<song_tasks, job_queue, running, sink, submits, lastSubmit,
                 npolls, hist, last, checking>>

VARIABLES
    message_store,      \* chat_id -> message_id -> {sender, text, timestamp}
    save_counter,       \* calls of save_messages_to_file since the last write
    disk,               \* the files: MESSAGE_STORE_FILE, its .tmp, the backups
    pc,                 \* where the process stands
    serializable_data,  \* the local of save_messages_to_file being written
    caller,             \* who called the running save_messages_to_file
    prevFile,           \* history: MESSAGE_STORE_FILE when the save began
    lastSave,           \* history: the last call of save_messages_to_file
    lastLoad            \* history: the start of the process just made

storeVars == <<message_store, save_counter, disk, pc, serializable_data,
               caller, prevFile, lastSave, lastLoad>>

VARIABLES
    now,                \* the clock: seconds since 2024-07-20T00:00:00Z
    lastQuery           \* history: the last query of the store and its answer

queryVars == <<now, lastQuery>>

VARIABLES
    chat_threads,            \* chat_id -> the messages ChatGPT is sent
    message_counters,        \* chat_id -> texts stored: .get(chat_id, 0) % N
    AUTO_RESPONSE_INTERVAL,  \* the setting of config.py: every how many texts
    turns,              \* history: chat_id -> all that its thread took in
    asked                    \* history: the calls of ChatGPT so far

threadVars == <<chat_threads, message_counters, AUTO_RESPONSE_INTERVAL,
                turns, asked>>

VARIABLES
    workers,            \* the calls run_in_executor has handed message_store
    custom_song_wait    \* context.user_data[...]: who is to name a song where

loopVars == <<workers, custom_song_wait>>

nonTrackerVars == <<storeVars, queryVars, threadVars, loopVars>>

nonStoreVars == <<trackerVars, queryVars, threadVars, loopVars>>

vars == <<trackerVars, storeVars, queryVars, threadVars, loopVars>>

-----------------------------------------------------------------------------
(* Bounds of the model *)

MaxSubmits == 2
MaxPolls == 3
MaxTracks == 2

(* Small input sets *)

JobIds == {"t1", "t2"}
Chats == {"c1", "c2"}
Songs == {"song"}

-----------------------------------------------------------------------------
(* Program constants of the tracker *)

FirstPollDelay == 180
NotReadyDelay == 30
NoStatusDelay == 60
ErrorDelay == 120

FailureTags == {"CREATE_TASK_FAILED", "GENERATE_AUDIO_FAILED",
                "CALLBACK_EXCEPTION", "SENSITIVE_WORD_ERROR"}

\* statuses that fall into the final else branch: still running, or the
\* default 'unknown' of status_result.get('status', 'unknown')
OtherTags == {"PENDING", "unknown"}

StatusTags == {"SUCCESS"} \cup FailureTags \cup OtherTags

\* Python's None, as an answer of a collaborator
None == [none |-> TRUE]
\* what a poll observed when the status check returned None
NoStatus == "None"

-----------------------------------------------------------------------------
(* Helpers on dicts and bags *)

One(x) == SetToBag({x})

Without(d, k) == [x \in (DOMAIN d) \ {k} |-> d[x]]

With(d, k, v) == [x \in (DOMAIN d) \cup {k} |-> IF x = k THEN v ELSE d[x]]

\* number of pending run_once jobs of one task_id
Pending(q, t) ==
    BagCardinality([j \in {x \in DOMAIN q : x.task_id = t} |-> q[j]])

\* number of suspended polls of one task_id
Suspended(r, t) ==
    BagCardinality([p \in {x \in DOMAIN r : x.job.task_id = t} |-> r[p]])

\* number of sink messages of one task_id
SentFor(s, t) ==
    BagCardinality([m \in {x \in DOMAIN s : x.task_id = t} |-> s[m]])

\* the data of a run_once job: data={'task_id': ..., 'chat_id': ...}
Job(t, c) == [task_id |-> t, chat_id |-> c]

\* context.job_queue.run_once(check_song_automatically, d, data=...), once
\* for each delay of delays.  The queue holds the jobs that will fire; the
\* delay each was given is kept in the history of the caller (lastSubmit,
\* last), the model having no clock.
run_once(q, t, c, delays) ==
    IF delays = <<>> THEN q ELSE q (+) [j \in {Job(t, c)} |-> Len(delays)]

-----------------------------------------------------------------------------
(* The external collaborators' answers *)

\* generate_music_with_suno: None, or {'task_id': ..., 'song_data': ...}
SunoResults == {None} \cup [task_id : JobIds]

\* response.sunoData of a status answer: a list of tracks, each with or
\* without both audioUrl and imageUrl; Null is "response": null
Null == [null |-> TRUE]
TrackLists == UNION {[1..n -> BOOLEAN] : n \in 0..MaxTracks}
Payloads == {Null} \cup [sunoData : TrackLists]

\* check_suno_task_status: None (no API key, HTTP or code != 200, 404, any
\* exception) or the task data
check_suno_task_status ==
    {None}
    \cup [status : {"SUCCESS"}, response : Payloads]
    \cup [status : StatusTags \ {"SUCCESS"}, response : {[sunoData |-> <<>>]}]

\* The sends for one track with both URLs end in one of four ways: both
\* downloads 200 and send_audio accepted; a download not 200 and send_message
\* with the links accepted; the try block raised and the except block's
\* send_message accepted; or that send_message raised as well.  The first
\* three hand the track to the chat and go on to the next track, the last
\* leaves the loop for the outer except.  The sends of one answer are thus
\* described by the track whose fallback raised, or NoRaise.
NoRaise == 0

-----------------------------------------------------------------------------
(* Job submission *)

NoSubmit == [res |-> [nothing |-> TRUE], scheduled |-> <<>>]

\* number of successful submissions so far
Submitted == submits["t1"] + submits["t2"]

\* record_song_task with the first poll scheduled like a re-check
record_song_task_recheck_delay(c, s, suno_result) ==
    IF suno_result # None
    THEN /\ song_tasks' = With(song_tasks, suno_result.task_id,
                               [song_data |-> s, chat_id |-> c])
         /\ job_queue' = run_once(job_queue, suno_result.task_id, c,
                                  <<NotReadyDelay>>)
         /\ submits' = [submits EXCEPT ![suno_result.task_id] = @ + 1]
         /\ lastSubmit' = [res |-> suno_result, scheduled |-> <<NotReadyDelay>>]
    ELSE /\ lastSubmit' = [res |-> suno_result, scheduled |-> <<>>]
         /\ UNCHANGED <<song_tasks, job_queue, submits>>

\* lines 928-944 / 574-588: the branch on suno_result
record_song_task(c, s, suno_result) ==
    IF suno_result # None
    THEN /\ song_tasks' = With(song_tasks, suno_result.task_id,
                               [song_data |-> s, chat_id |-> c])
         /\ job_queue' = run_once(job_queue, suno_result.task_id, c,
                                  <<FirstPollDelay>>)
         /\ submits' = [submits EXCEPT ![suno_result.task_id] = @ + 1]
         /\ lastSubmit' = [res |-> suno_result, scheduled |-> <<FirstPollDelay>>]
    ELSE /\ lastSubmit' = [res |-> suno_result, scheduled |-> <<>>]
         /\ UNCHANGED <<song_tasks, job_queue, submits>>

SubmitFrame ==
    UNCHANGED <<running, sink, npolls, hist, last, checking, nonTrackerVars>>

\* "song of the day": the Suno part of handle_song_generation
handle_song_generation(c, s, suno_result) ==
    /\ SubmitFrame
    /\ record_song_task(c, s, suno_result)

\* "order a song": the Suno part of message_handler's custom_song_wait branch
message_handler_custom_song(c, s, suno_result) ==
    /\ SubmitFrame
    /\ record_song_task(c, s, suno_result)

-----------------------------------------------------------------------------
(* The poll: check_song_automatically *)

NoPoll == [task_id |-> "none"]

\* how a poll ended: without an exception, with one raised by the answer
\* (response is null), or with one raised by a send
Returned == "returned"
RaisedByAnswer == "answer raised"
RaisedBySend == "send raised"

\* the kind of answer a poll observed
Kind(obs) ==
    IF obs = NoStatus THEN "none"
    ELSE IF obs = "SUCCESS" THEN "success"
    ELSE IF obs \in FailureTags THEN "failure"
    ELSE "other"

\* where the completed polls of a task stand, as a history:
\*   "fresh"      none yet
\*   "waiting"    one or more, each with no status or a status not terminal
\*   "succeeded"  such polls, then SUCCESS and its delivery without an error
\*   "failed"     such polls, then a failure tag and its notice without an error
\*   "broken"     anything else: a poll raised, or one ran after a terminal one
Step(h, kind, raised) ==
    IF h \in {"fresh", "waiting"} /\ raised = Returned
    THEN CASE kind \in {"none", "other"} -> "waiting"
           [] kind = "success" -> "succeeded"
           [] kind = "failure" -> "failed"
    ELSE "broken"

\* the history record of a completed poll: due is the number of messages
\* the answer calls for, sent the number handed to the chat
PollRecord(job, obs, had_entry, raised, delays, sent, due) ==
    [task_id |-> job.task_id, chat_id |-> job.chat_id, kind |-> Kind(obs),
     had_entry |-> had_entry, raised |-> raised, scheduled |-> delays,
     sent |-> BagCardinality(sent), due |-> due]

\* a poll returns, having called run_once with each of delays and handed
\* sent to the chat; q is the queue without the job that fired
PollReturns(job, q, obs, had_entry, raised, delays, sent, due) ==
    /\ job_queue' = run_once(q, job.task_id, job.chat_id, delays)
    /\ sink' = sink (+) sent
    /\ last' = PollRecord(job, obs, had_entry, raised, delays, sent, due)
    /\ hist' = [hist EXCEPT ![job.task_id] = Step(@, Kind(obs), raised)]

\* the next poll is put on the queue twice
poll_not_ready_schedules_twice(job, q, obs) ==
    /\ PollReturns(job, q, obs, job.task_id \in DOMAIN song_tasks, Returned,
                   <<NotReadyDelay, NotReadyDelay>>, EmptyBag, 0)
    /\ UNCHANGED <<song_tasks, running>>

\* poll_not_ready with a cutoff: the second poll of the process gives up
poll_not_ready_gives_up(job, q, obs) ==
    /\ PollReturns(job, q, obs, job.task_id \in DOMAIN song_tasks, Returned,
                   IF npolls >= 1 THEN <<>> ELSE <<NotReadyDelay>>,
                   EmptyBag, 0)
    /\ UNCHANGED <<song_tasks, running>>

\* lines 1086-1092: the final else, not ready yet
poll_not_ready(job, q, obs) ==
    /\ PollReturns(job, q, obs, job.task_id \in DOMAIN song_tasks, Returned,
                   <<NotReadyDelay>>, EmptyBag, 0)
    /\ UNCHANGED <<song_tasks, running>>

\* poll_no_status re-checking as soon as for a status not ready
poll_no_status_short_delay(job, q) ==
    /\ PollReturns(job, q, NoStatus, job.task_id \in DOMAIN song_tasks,
                   Returned, <<NotReadyDelay>>, EmptyBag, 0)
    /\ UNCHANGED <<song_tasks, running>>

\* lines 1094-1101: no status
poll_no_status(job, q) ==
    /\ PollReturns(job, q, NoStatus, job.task_id \in DOMAIN song_tasks,
                   Returned, <<NoStatusDelay>>, EmptyBag, 0)
    /\ UNCHANGED <<song_tasks, running>>

\* the exception ends the polling, the entry stays
poll_except_gives_up(job, q, obs, had_entry, raised, sent, due) ==
    /\ PollReturns(job, q, obs, had_entry, raised, <<>>, sent, due)
    /\ UNCHANGED song_tasks

\* lines 1103-1110: except Exception
poll_except(job, q, obs, had_entry, raised, sent, due) ==
    /\ PollReturns(job, q, obs, had_entry, raised, <<ErrorDelay>>, sent, due)
    /\ UNCHANGED song_tasks

\* poll_remove_task without the del
poll_remove_task_keeps_entry(job, q, obs, had_entry, sent, due) ==
    /\ PollReturns(job, q, obs, had_entry, Returned, <<>>, sent, due)
    /\ song_tasks' = song_tasks

\* lines 1069-1071 / 1082-1084: del context.bot_data['song_tasks'][task_id]
poll_remove_task(job, q, obs, had_entry, sent, due) ==
    /\ PollReturns(job, q, obs, had_entry, Returned, <<>>, sent, due)
    /\ song_tasks' = IF job.task_id \in DOMAIN song_tasks
                     THEN Without(song_tasks, job.task_id)
                     ELSE song_tasks

\* does a SUCCESS answer reach a send (an await) at all?  A track without
\* both URLs is passed over in silence (line 1001 has no else)
NeedsSend(tracks) == tracks = <<>> \/ \E i \in DOMAIN tracks : tracks[i]

\* no poll stands in the status check
NotChecking == [checking |-> FALSE]

\* the poll from the answer of the status check up to the first await, q
\* being the queue without the job
poll_decide(job, q, status_result) ==
    /\ UNCHANGED <<submits, lastSubmit, nonTrackerVars>>
    /\ LET had == job.task_id \in DOMAIN song_tasks
       IN  IF status_result = None
           THEN poll_no_status(job, q)
           ELSE IF status_result.status = "SUCCESS"
           THEN IF status_result.response = Null
                THEN \* response_data.get on None raises
                     /\ poll_except(job, q, "SUCCESS", had, RaisedByAnswer,
                                     EmptyBag, 0)
                     /\ UNCHANGED running
                ELSE IF NeedsSend(status_result.response.sunoData)
                THEN /\ running' = running (+)
                            One([job |-> job, status |-> "SUCCESS",
                                 tracks |-> status_result.response.sunoData,
                                 had_entry |-> had])
                     /\ job_queue' = q
                     /\ UNCHANGED <<song_tasks, sink, hist, last>>
                ELSE /\ poll_remove_task(job, q, "SUCCESS", had, EmptyBag, 0)
                     /\ UNCHANGED running
           ELSE IF status_result.status \in FailureTags
           THEN /\ running' = running (+)
                       One([job |-> job, status |-> status_result.status,
                            tracks |-> <<>>,
                            had_entry |-> had])
                /\ job_queue' = q
                /\ UNCHANGED <<song_tasks, sink, hist, last>>
           ELSE poll_not_ready(job, q, status_result.status)

\* the job fires: lines 969-991, up to the first await, the status check
\* having answered
poll_fire(job, status_result) ==
    /\ BagIn(job, job_queue)
    /\ checking = NotChecking
    /\ UNCHANGED checking
    /\ npolls < MaxPolls
    /\ npolls' = npolls + 1
    /\ poll_decide(job, job_queue (-) One(job), status_result)

\* the job fires, however many polls there have been: they are counted up
\* to MaxPolls and no further
poll_fire_on(job, status_result) ==
    /\ BagIn(job, job_queue)
    /\ checking = NotChecking
    /\ UNCHANGED checking
    /\ npolls' = IF npolls < MaxPolls THEN npolls + 1 ELSE npolls
    /\ poll_decide(job, job_queue (-) One(job), status_result)

\* the job fires and calls check_suno_task_status, which sends its request
\* with requests.get(url, headers=headers); the call is not awaited, so
\* nothing else of the bot runs until it returns
poll_begin(job) ==
    /\ BagIn(job, job_queue)
    /\ checking = NotChecking
    /\ npolls < MaxPolls
    /\ checking' = job
    /\ job_queue' = job_queue (-) One(job)
    /\ UNCHANGED <<song_tasks, running, sink, submits, lastSubmit, npolls,
                   hist, last, nonTrackerVars>>

\* requests.get returns or raises, and the poll goes on with what
\* check_suno_task_status makes of it
poll_status_returns(status_result) ==
    /\ checking # NotChecking
    /\ checking' = NotChecking
    /\ npolls < MaxPolls
    /\ npolls' = npolls + 1
    /\ poll_decide(checking, job_queue, status_result)

\* what the chat receives: track i of a task (as audio, or as the text with
\* its links), the "no tracks" notice, or the failure notice; track is 0 for
\* the two notices
Msg(job, kind, track) ==
    [chat_id |-> job.chat_id, task_id |-> job.task_id, kind |-> kind,
     track |-> track]

\* the number of messages the answer of a suspended poll calls for: one for
\* each track with both URLs, or the one notice
Due(p) ==
    IF p.status \in FailureTags \/ p.tracks = <<>>
    THEN 1
    ELSE Cardinality({i \in DOMAIN p.tracks : p.tracks[i]})

\* the tracks handed to the chat when the fallback of track stop raised:
\* the loop of line 996 ends there
Reached(tracks, stop) ==
    {i \in DOMAIN tracks : tracks[i] /\ (stop = NoRaise \/ i < stop)}

TrackMsgs(p, stop) ==
    SetToBag({Msg(p.job, "track", i) : i \in Reached(p.tracks, stop)})

\* lines 996-1057 and 1069-1071: the sends of a SUCCESS answer with tracks
deliver_tracks(p, q, stop) ==
    IF stop # NoRaise
    THEN poll_except(p.job, q, p.status, p.had_entry, RaisedBySend,
                     TrackMsgs(p, stop), Due(p))
    ELSE poll_remove_task(p.job, q, p.status, p.had_entry,
                          TrackMsgs(p, stop), Due(p))

\* lines 1058-1071: SUCCESS without sunoData, one send_message
deliver_no_tracks(p, q, ok) ==
    IF ok
    THEN poll_remove_task(p.job, q, p.status, p.had_entry,
                          One(Msg(p.job, "no_tracks", 0)), Due(p))
    ELSE poll_except(p.job, q, p.status, p.had_entry, RaisedBySend,
                     EmptyBag, Due(p))

\* the notice of the failure sent, the task is polled on
deliver_failure_polls_on(p, q, ok) ==
    poll_except(p.job, q, p.status, p.had_entry,
                IF ok THEN Returned ELSE RaisedBySend, EmptyBag, Due(p))

\* lines 1073-1084: a failure tag, one send_message
deliver_failure(p, q, ok) ==
    IF ok
    THEN poll_remove_task(p.job, q, p.status, p.had_entry,
                          One(Msg(p.job, "failed", 0)), Due(p))
    ELSE poll_except(p.job, q, p.status, p.had_entry, RaisedBySend,
                     EmptyBag, Due(p))

\* a suspended poll runs from its first await to its return; stop is the
\* send that raised (a track for an answer with tracks, any value but NoRaise
\* for a notice)
poll_resume(p, stop) ==
    /\ BagIn(p, running)
    /\ running' = running (-) One(p)
    /\ UNCHANGED <<submits, lastSubmit, npolls, checking, nonTrackerVars>>
    /\ IF p.status \in FailureTags
       THEN stop \in {NoRaise, 1} /\ deliver_failure(p, job_queue, stop = NoRaise)
       ELSE IF p.tracks = <<>>
       THEN stop \in {NoRaise, 1} /\ deliver_no_tracks(p, job_queue, stop = NoRaise)
       ELSE /\ stop # NoRaise => stop \in DOMAIN p.tracks /\ p.tracks[stop]
            /\ deliver_tracks(p, job_queue, stop)

\* check_song_automatically: a pending job fires, or a fired one resumes
check_song_automatically ==
    \/ \E job \in DOMAIN job_queue, r \in check_suno_task_status :
           poll_fire(job, r)
    \/ \E p \in DOMAIN running, stop \in 0..MaxTracks :
           poll_resume(p, stop)

-----------------------------------------------------------------------------
(* The tracker as a state machine *)

TrackerInit ==
    /\ song_tasks = <<>>
    /\ job_queue = EmptyBag
    /\ running = EmptyBag
    /\ sink = EmptyBag
    /\ submits = [t \in JobIds |-> 0]
    /\ lastSubmit = NoSubmit
    /\ npolls = 0
    /\ hist = [t \in JobIds |-> "fresh"]
    /\ last = NoPoll
    /\ checking = NotChecking

\* the chat a task id is submitted from: Suno hands a task id to the request
\* of one chat
Owner(t) == IF t = "t1" THEN "c1" ELSE "c2"

FromOwner(c, res) == res # None => c = Owner(res.task_id)

\* Suno answers every request with a task id of its own
Fresh(res) == res # None => submits[res.task_id] = 0

\* or, were it to repeat itself, with one it has given before
Reused(res) == res # None => Submitted < MaxSubmits

SongOfTheDay ==
    \E c \in Chats, s \in Songs, res \in SunoResults :
        FromOwner(c, res) /\ Fresh(res) /\ handle_song_generation(c, s, res)

OrderASong ==
    \E c \in Chats, s \in Songs, res \in SunoResults :
        FromOwner(c, res) /\ Fresh(res)
        /\ message_handler_custom_song(c, s, res)

SongOfTheDayAgain ==
    \E c \in Chats, s \in Songs, res \in SunoResults :
        FromOwner(c, res) /\ Reused(res) /\ handle_song_generation(c, s, res)

OrderASongAgain ==
    \E c \in Chats, s \in Songs, res \in SunoResults :
        FromOwner(c, res) /\ Reused(res)
        /\ message_handler_custom_song(c, s, res)

TrackerNext ==
    \/ SongOfTheDay
    \/ OrderASong
    \/ check_song_automatically

TrackerReuseNext ==
    \/ SongOfTheDayAgain
    \/ OrderASongAgain
    \/ check_song_automatically

-----------------------------------------------------------------------------
(* The message store and its file *)

SAVE_BATCH_SIZE == 10

\* hours between UTC and the wall clock of moscow_tz
MoscowOffset == 3

MaxDate == 0

MessageIds == {"1"}
FirstNames == {"ann"}
Texts == {"hi"}
Dates == 0..MaxDate

\* datetimes are counted in seconds
Hour == 60 * 60

Day == 24 * Hour

\* a datetime is an instant and the zone it is told in
moscow_tz == [zone |-> "Europe/Moscow"]

FixedOffset(h) == [hours |-> h]

utcoffset(tz) == IF tz = moscow_tz THEN MoscowOffset ELSE tz.hours

\* the date stays in UTC, as replace(tzinfo=pytz.UTC) leaves it
astimezone_stays_utc(date, tz) == [utc |-> date, tzinfo |-> FixedOffset(0)]

\* message.date.replace(tzinfo=pytz.UTC).astimezone(moscow_tz)
astimezone(date, tz) == [utc |-> date, tzinfo |-> tz]

\* "YYYY-MM-DDTHH:MM:SS+HH:00": the wall clock and the offset; the zone's
\* name is not written
isoformat(ts) ==
    [wall |-> ts.utc + utcoffset(ts.tzinfo) * Hour,
     offset |-> utcoffset(ts.tzinfo)]

\* the offset written is not taken off the wall clock
fromisoformat_keeps_wall_clock(str) ==
    [utc |-> str.wall, tzinfo |-> FixedOffset(str.offset)]

fromisoformat(str) ==
    [utc |-> str.wall - str.offset * Hour, tzinfo |-> FixedOffset(str.offset)]

\* first_name or the stand-in for the nameless
Sender(first_name) == IF first_name = "" THEN "Anonim" ELSE first_name

TextRecord(first_name, text, date) ==
    [sender |-> Sender(first_name),
     text |-> [voice |-> FALSE, body |-> text],
     timestamp |-> astimezone(date, moscow_tz)]

\* the transcript goes in behind the voice tag
VoiceRecord(first_name, transcript, date) ==
    [sender |-> Sender(first_name),
     text |-> [voice |-> TRUE, body |-> transcript],
     timestamp |-> astimezone(date, moscow_tz)]

\* the chat is made anew with every message
store_message_fresh_chat(store, chat_id, message_id, record) ==
    With(store, chat_id, With(<<>>, message_id, record))

\* message_store[chat_id][message_id] = record, the chat made if missing
store_message(store, chat_id, message_id, record) ==
    With(store, chat_id,
         With(IF chat_id \in DOMAIN store THEN store[chat_id] ELSE <<>>,
              message_id, record))

\* the dictionary json.dump is given: every timestamp as its ISO string
Serialize(store) ==
    [c \in DOMAIN store |->
        [m \in DOMAIN store[c] |->
            [store[c][m] EXCEPT !.timestamp = isoformat(@)]]]

\* and what the loader makes of it
Deserialize(data) ==
    [c \in DOMAIN data |->
        [m \in DOMAIN data[c] |->
            [data[c][m] EXCEPT !.timestamp = fromisoformat(@)]]]

\* a file: missing, or the text of data, whole or cut short
Absent == [exists |-> FALSE]

File(data, whole) == [exists |-> TRUE, json |-> data, whole |-> whole]

\* a file that is there and is no snapshot, by what is wrong with it
MalformedKinds ==
    {"invalid json", "top level is a list", "chat is a list",
     "record is a string", "no timestamp", "timestamp is a number",
     "timestamp does not parse"}

Malformed(kind) == [exists |-> TRUE, malformed |-> kind]

\* the exception the body of load_messages_from_file's try raises on a file
load_raises(f) ==
    IF ~f.exists THEN "none"
    ELSE IF "malformed" \in DOMAIN f
    THEN CASE f.malformed = "invalid json" -> "JSONDecodeError"
           [] f.malformed = "top level is a list" -> "AttributeError"
           [] f.malformed = "chat is a list" -> "AttributeError"
           [] f.malformed = "record is a string" -> "TypeError"
           [] f.malformed = "no timestamp" -> "KeyError"
           [] f.malformed = "timestamp is a number" -> "TypeError"
           [] f.malformed = "timestamp does not parse" -> "ValueError"
    ELSE IF f.whole THEN "none" ELSE "JSONDecodeError"

\* except (json.JSONDecodeError, KeyError, ValueError)
Caught == {"JSONDecodeError", "KeyError", "ValueError"}

MaxStamp == 2

\* readings of datetime.now() to the second, as strftime writes them into
\* the name of a backup
Stamps == 1..MaxStamp

NoData == <<>>

NoSave == [force |-> FALSE, nth |-> 0, wrote |-> FALSE]

NoLoad == [loaded |-> FALSE]

\* what a start found: whether main had ended with its forced save written,
\* and the store the process that ended had held
LoadRecord(saved, store) ==
    [loaded |-> TRUE, saved |-> saved, before |-> store,
     threads |-> chat_threads]

\* a start that ended in the exception load_messages_from_file let through
LoadFailed(exception, stamp, d) ==
    [loaded |-> FALSE, raised |-> exception, stamp |-> stamp, found |-> d]

\* a start whose load set the file aside
LoadSetAside(stamp, d) ==
    [loaded |-> TRUE, saved |-> FALSE, before |-> <<>>, stamp |-> stamp,
     found |-> d, threads |-> chat_threads]

Saving == {"open", "dump", "replace", "except"}

\* where a finished save comes back to: the handler's caller, or the end of
\* main
AfterSave(stopping) == IF stopping THEN "down" ELSE "idle"

SaveRecord(force, wrote) ==
    [force |-> force,
     nth |-> (IF lastSave.wrote THEN 0 ELSE lastSave.nth) + 1,
     wrote |-> wrote]

\* the write is due one call late
save_messages_to_file_one_late(force, stopping) ==
    LET n == save_counter + 1 IN
    IF ~force /\ n <= SAVE_BATCH_SIZE
    THEN /\ save_counter' = n
         /\ pc' = AfterSave(stopping)
         /\ lastSave' = SaveRecord(force, FALSE)
         /\ UNCHANGED <<disk, serializable_data, prevFile>>
    ELSE /\ save_counter' = 0
         /\ serializable_data' = Serialize(message_store')
         /\ pc' = "open"
         /\ prevFile' = disk.store
         /\ lastSave' = SaveRecord(force, TRUE)
         /\ UNCHANGED disk

\* save_messages_to_file up to its try: count the call, return if no write
\* is due, else start the count again and build what is to be written
save_messages_to_file(force, stopping) ==
    LET n == save_counter + 1 IN
    IF ~force /\ n < SAVE_BATCH_SIZE
    THEN /\ save_counter' = n
         /\ pc' = AfterSave(stopping)
         /\ lastSave' = SaveRecord(force, FALSE)
         /\ UNCHANGED <<disk, serializable_data, prevFile>>
    ELSE /\ save_counter' = 0
         /\ serializable_data' = Serialize(message_store')
         /\ pc' = "open"
         /\ prevFile' = disk.store
         /\ lastSave' = SaveRecord(force, TRUE)
         /\ UNCHANGED disk

SaveFrame == UNCHANGED <<message_store, save_counter, caller, lastSave,
                         lastLoad, nonStoreVars>>

SaveReturns ==
    /\ pc' = AfterSave(caller = "main")
    /\ serializable_data' = NoData
    /\ prevFile' = Absent

\* the file is opened for writing under its own name
save_open_in_place(ok) ==
    /\ pc = "open"
    /\ IF ok
       THEN /\ disk' = [disk EXCEPT !.store = File(serializable_data, FALSE)]
            /\ pc' = "dump"
       ELSE /\ pc' = "except"
            /\ UNCHANGED disk
    /\ UNCHANGED <<serializable_data, prevFile>>
    /\ SaveFrame

\* open(temp_file, "w"): the temporary file is there and empty, or the open
\* raises
save_open(ok) ==
    /\ pc = "open"
    /\ IF ok
       THEN /\ disk' = [disk EXCEPT !.tmp = File(serializable_data, FALSE)]
            /\ pc' = "dump"
       ELSE /\ pc' = "except"
            /\ UNCHANGED disk
    /\ UNCHANGED <<serializable_data, prevFile>>
    /\ SaveFrame

\* json.dump and the close: the text is all there, or the write raises with
\* the text cut short
save_dump(ok) ==
    /\ pc = "dump"
    /\ IF ok
       THEN /\ disk' = [disk EXCEPT !.tmp = File(serializable_data, TRUE)]
            /\ pc' = "replace"
       ELSE /\ pc' = "except"
            /\ UNCHANGED disk
    /\ UNCHANGED <<serializable_data, prevFile>>
    /\ SaveFrame

\* os.replace(temp_file, MESSAGE_STORE_FILE): in one step, or it raises
save_replace(ok) ==
    /\ pc = "replace"
    /\ IF ok
       THEN /\ disk' = [disk EXCEPT !.store = disk.tmp, !.tmp = Absent]
            /\ SaveReturns
       ELSE /\ pc' = "except"
            /\ UNCHANGED <<disk, serializable_data, prevFile>>
    /\ SaveFrame

\* a save that fails starts the store afresh
save_except_empties_store(ok) ==
    /\ pc = "except"
    /\ disk' = IF disk.tmp.exists /\ ok
               THEN [disk EXCEPT !.tmp = Absent]
               ELSE disk
    /\ SaveReturns
    /\ message_store' = <<>>
    /\ UNCHANGED <<save_counter, caller, lastSave, lastLoad, nonStoreVars>>

\* the except branch: the temporary file, if there, is removed; a remove that
\* raises leaves it and goes up to the caller
save_except(ok) ==
    /\ pc = "except"
    /\ disk' = IF disk.tmp.exists /\ ok
               THEN [disk EXCEPT !.tmp = Absent]
               ELSE disk
    /\ SaveReturns
    /\ SaveFrame

\* load_messages_from_file: what it returns
load_messages_from_file(d) ==
    IF d.store.exists /\ load_raises(d.store) = "none"
    THEN Deserialize(d.store.json)
    ELSE <<>>

\* and what it does to the files: on a caught exception the file is renamed
\* to its backup name, over whatever had that name
load_renames(d, stamp) ==
    IF load_raises(d.store) \in Caught
    THEN [d EXCEPT !.store = Absent, !.backups = With(@, stamp, d.store)]
    ELSE d

-----------------------------------------------------------------------------
(* The threads of the talk with ChatGPT *)

CHATGPT_PROMPT == "prompt"

\* len(chat_threads[chat_id]) > 20
ThreadCap == 20

\* chat_threads[chat_id][-10:]
ThreadKeep == 10

MaxAsked == 3

Turn(role, content) == [role |-> role, content |-> content]

Seed == Turn("system", CHATGPT_PROMPT)

\* thread[:n]
First(thread, n) ==
    SubSeq(thread, 1, IF Len(thread) < n THEN Len(thread) ELSE n)

\* thread[-n:]
Last(thread, n) ==
    SubSeq(thread, IF Len(thread) < n THEN 1 ELSE Len(thread) - n + 1,
           Len(thread))

\* the first entry goes with the rest
trim_drops_seed(thread) ==
    IF Len(thread) > ThreadCap
    THEN Last(thread, ThreadKeep + 1)
    ELSE thread

\* if len(thread) > 20: thread = thread[:1] + thread[-10:]
trim(thread) ==
    IF Len(thread) > ThreadCap
    THEN First(thread, 1) \o Last(thread, ThreadKeep)
    ELSE thread

\* the chats whose threads were too long lose them
cleanup_chat_threads_forgets_trimmed(threads) ==
    [c \in {d \in DOMAIN threads : Len(threads[d]) <= ThreadCap} |->
        threads[c]]

\* cleanup_chat_threads(): every thread trimmed
cleanup_chat_threads(threads) == [c \in DOMAIN threads |-> trim(threads[c])]

NoThreads == <<>>

\* message_counters = {}: every chat reads as 0
NoCounts == [c \in Chats \cup {"c9"} |-> 0]

\* the thread of a chat is made empty
Seeded_without_system_message(chat_id) ==
    IF chat_id \in DOMAIN chat_threads
    THEN chat_threads[chat_id]
    ELSE <<>>

\* the thread of a chat, made with the system message if the chat has none
Seeded(chat_id) ==
    IF chat_id \in DOMAIN chat_threads
    THEN chat_threads[chat_id]
    ELSE <<Seed>>

Past(chat_id) ==
    IF chat_id \in DOMAIN turns THEN turns[chat_id] ELSE <<>>

\* what the next question and its answer are called in the model
Serial(chat_id) == ToString(Len(Past(chat_id)) + 1)

\* one exchange with ChatGPT: the thread made if missing, the user's message
\* appended, then the call; its reply appended and the thread trimmed, or,
\* when the call raises, the except branch with the thread as it stands
ask_chatgpt(chat_id, prompt, reply, ok) ==
    LET put == Append(Seeded(chat_id), Turn("user", prompt))
        answered == Append(put, Turn("assistant", reply))
    IN /\ asked < MaxAsked
       /\ chat_threads' = With(chat_threads, chat_id,
                               IF ok THEN trim(answered) ELSE put)
       /\ turns' = With(turns, chat_id, Past(chat_id) \o
                                (IF ok THEN <<Turn("user", prompt),
                                              Turn("assistant", reply)>>
                                       ELSE <<Turn("user", prompt)>>))
       /\ asked' = asked + 1

\* message_counters[chat_id] += 1, of which the handler reads nothing but
\* the remainder by AUTO_RESPONSE_INTERVAL
counted(chat_id) ==
    IF AUTO_RESPONSE_INTERVAL > 0
    THEN (message_counters[chat_id] + 1) % AUTO_RESPONSE_INTERVAL
    ELSE 0

\* the end of the text branch: the text counted and every
\* AUTO_RESPONSE_INTERVAL-th one put to ChatGPT
auto_response(chat_id, text) ==
    /\ message_counters' =
          [message_counters EXCEPT ![chat_id] = counted(chat_id)]
    /\ IF AUTO_RESPONSE_INTERVAL > 0 /\ counted(chat_id) = 0
       THEN \E ok \in BOOLEAN :
               ask_chatgpt(chat_id, text, Serial(chat_id), ok)
       ELSE UNCHANGED <<chat_threads, turns, asked>>
    /\ UNCHANGED AUTO_RESPONSE_INTERVAL

\* message_handler, a text that starts with "?" and goes on: put to ChatGPT,
\* and the handler returns
message_handler_question(chat_id, prompt, ok) ==
    /\ pc = "idle"
    /\ ask_chatgpt(chat_id, prompt, Serial(chat_id), ok)
    /\ UNCHANGED <<message_counters, AUTO_RESPONSE_INTERVAL>>
    /\ UNCHANGED <<trackerVars, storeVars, queryVars, loopVars>>

\* chatgpt_query, the command /q with a question after it
chatgpt_query(chat_id, prompt, ok) ==
    /\ pc = "idle"
    /\ ask_chatgpt(chat_id, prompt, Serial(chat_id), ok)
    /\ UNCHANGED <<message_counters, AUTO_RESPONSE_INTERVAL>>
    /\ UNCHANGED <<trackerVars, storeVars, queryVars, loopVars>>

\* message_handler, a text that is no command, button or question: stored,
\* saved, counted, and now and then answered
message_handler_text(chat_id, message_id, first_name, text, date) ==
    /\ pc = "idle"
    /\ message_store' = store_message(message_store, chat_id, message_id,
                                      TextRecord(first_name, text, date))
    /\ caller' = "message_handler"
    /\ save_messages_to_file(FALSE, FALSE)
    /\ lastLoad' = NoLoad
    /\ auto_response(chat_id, text)
    /\ UNCHANGED <<trackerVars, queryVars, loopVars>>

\* message_handler, a voice message: its transcript stored, then saved
message_handler_voice(chat_id, message_id, first_name, transcript, date) ==
    /\ pc = "idle"
    /\ message_store' = store_message(message_store, chat_id, message_id,
                                      VoiceRecord(first_name, transcript, date))
    /\ caller' = "message_handler"
    /\ save_messages_to_file(FALSE, FALSE)
    /\ lastLoad' = NoLoad
    /\ UNCHANGED nonStoreVars

\* main ends with a save that is not forced
main_finally_unforced ==
    /\ pc = "idle"
    /\ caller' = "main"
    /\ UNCHANGED message_store
    /\ save_messages_to_file(FALSE, TRUE)
    /\ lastLoad' = NoLoad
    /\ UNCHANGED nonStoreVars

\* main, when run_polling ends: the forced save, then the process is over
main_finally ==
    /\ pc = "idle"
    /\ caller' = "main"
    /\ UNCHANGED message_store
    /\ save_messages_to_file(TRUE, TRUE)
    /\ lastLoad' = NoLoad
    /\ UNCHANGED nonStoreVars

\* the process is killed, wherever it stands; the files stay as they are
Crash ==
    /\ pc # "down"
    /\ pc' = "down"
    /\ message_store' = <<>>
    /\ save_counter' = 0
    /\ serializable_data' = NoData
    /\ caller' = "none"
    /\ prevFile' = Absent
    /\ lastSave' = NoSave
    /\ lastLoad' = NoLoad
    /\ chat_threads' = NoThreads
    /\ message_counters' = NoCounts
    /\ turns' = <<>>
    /\ workers' = {}
    /\ custom_song_wait' = {}
    /\ UNCHANGED <<disk, trackerVars, queryVars, AUTO_RESPONSE_INTERVAL,
                   asked>>

\* the threads live through the restart
Start_keeps_threads(stamp) ==
    /\ pc = "down"
    /\ disk' = load_renames(disk, stamp)
    /\ save_counter' = 0
    /\ serializable_data' = NoData
    /\ caller' = "none"
    /\ prevFile' = Absent
    /\ lastSave' = NoSave
    /\ IF disk'.store = disk.store /\ load_raises(disk.store) # "none"
       THEN /\ pc' = "down"
            /\ message_store' = <<>>
            /\ lastLoad' = LoadFailed(load_raises(disk.store), stamp, disk)
       ELSE /\ pc' = "idle"
            /\ message_store' = load_messages_from_file(disk)
            /\ lastLoad' =
                  IF load_raises(disk.store) # "none"
                  THEN LoadSetAside(stamp, disk)
                  ELSE LoadRecord(/\ caller = "main"
                                  /\ lastSave.force /\ lastSave.wrote
                                  /\ disk.store =
                                        File(Serialize(message_store), TRUE),
                                  message_store)
    /\ chat_threads' = chat_threads
    /\ message_counters' = NoCounts
    /\ turns' = <<>>
    /\ workers' = {}
    /\ custom_song_wait' = {}
    /\ UNCHANGED <<trackerVars, queryVars, AUTO_RESPONSE_INTERVAL, asked>>

\* the module is imported again: chat_threads = {}, message_counters = {},
\* message_store = load_messages_from_file();
\* an exception the load lets through ends the process before it has begun
Start(stamp) ==
    /\ pc = "down"
    /\ disk' = load_renames(disk, stamp)
    /\ save_counter' = 0
    /\ serializable_data' = NoData
    /\ caller' = "none"
    /\ prevFile' = Absent
    /\ lastSave' = NoSave
    /\ IF disk'.store = disk.store /\ load_raises(disk.store) # "none"
       THEN /\ pc' = "down"
            /\ message_store' = <<>>
            /\ lastLoad' = LoadFailed(load_raises(disk.store), stamp, disk)
       ELSE /\ pc' = "idle"
            /\ message_store' = load_messages_from_file(disk)
            /\ lastLoad' =
                  IF load_raises(disk.store) # "none"
                  THEN LoadSetAside(stamp, disk)
                  ELSE LoadRecord(/\ caller = "main"
                                  /\ lastSave.force /\ lastSave.wrote
                                  /\ disk.store =
                                        File(Serialize(message_store), TRUE),
                                  message_store)
    /\ chat_threads' = NoThreads
    /\ message_counters' = NoCounts
    /\ turns' = <<>>
    /\ workers' = {}
    /\ custom_song_wait' = {}
    /\ UNCHANGED <<trackerVars, queryVars, AUTO_RESPONSE_INTERVAL, asked>>

\* something that is not the program leaves a file that is no snapshot,
\* while the process is not running
Damage ==
    /\ pc = "down"
    /\ \E k \in MalformedKinds : disk' = [disk EXCEPT !.store = Malformed(k)]
    /\ lastLoad' = NoLoad
    /\ UNCHANGED <<message_store, save_counter, pc, serializable_data, caller,
                   prevFile, lastSave, nonStoreVars>>

Restart == \E stamp \in Stamps : Start(stamp)

TextMessage ==
    \E c \in Chats, m \in MessageIds, n \in FirstNames, x \in Texts,
       d \in Dates :
        message_handler_text(c, m, n, x, d)

VoiceMessage ==
    \E c \in Chats, m \in MessageIds, n \in FirstNames, x \in Texts,
       d \in Dates :
        message_handler_voice(c, m, n, x, d)

SaveOpen == \E ok \in BOOLEAN : save_open(ok)

SaveDump == \E ok \in BOOLEAN : save_dump(ok)

SaveReplace == \E ok \in BOOLEAN : save_replace(ok)

SaveExcept == \E ok \in BOOLEAN : save_except(ok)

StoreInit ==
    /\ message_store = <<>>
    /\ save_counter = 0
    /\ disk = [store |-> Absent, tmp |-> Absent, backups |-> <<>>]
    /\ pc = "idle"
    /\ serializable_data = NoData
    /\ caller = "none"
    /\ prevFile = Absent
    /\ lastSave = NoSave
    /\ lastLoad = NoLoad

StoreNext ==
    \/ TextMessage
    \/ VoiceMessage
    \/ main_finally
    \/ SaveOpen
    \/ SaveDump
    \/ SaveReplace
    \/ SaveExcept
    \/ Crash
    \/ Restart

\* the process started, ended by main and killed, with no message coming in,
\* and the file damaged from outside
RecoveryNext ==
    \/ main_finally
    \/ SaveOpen
    \/ SaveDump
    \/ SaveReplace
    \/ SaveExcept
    \/ Crash
    \/ Restart
    \/ Damage

-----------------------------------------------------------------------------
(* Queries of the message store *)

\* date.toordinal() of 2024-07-20, the day second 0 of the clock falls on
EpochOrdinal == 739087

\* and of 9999-12-31, the last day a datetime can hold
MaxOrdinal == 3652059

MaxQueryIds == 3

\* the instant the wall clock of moscow_tz shows h:m:s, d days after
\* 2024-07-20
At(d, h, m, s) == d * Day + h * Hour + m * 60 + s - MoscowOffset * Hour

QueryIds == {ToString(i) : i \in 1..MaxQueryIds}

QueryDates ==
    {At(0 - 1, 23, 59, 59), At(0, 0, 0, 0), At(0, 9, 0, 0), At(0, 13, 0, 0),
     At(0, 21, 45, 0), At(0, 23, 30, 0), At(0, 23, 45, 0), At(0, 23, 45, 1)}

Clock == {At(0, 23, 45, 0), At(0, 23, 59, 0)}

QueryChats == Chats \cup {"c9"}

DateLabels ==
    {"2024-07-20", "2024-07-19", "2024-7-20", "9999-12-31", "2024-13-40",
     "hello"}

FirstNameOf(m) == IF m = "1" THEN "ann" ELSE IF m = "2" THEN "bob" ELSE ""

\* message ids grow as the messages come in, and each record is stamped as
\* it is taken in: a later id never has the earlier date
InOrder(f) ==
    \A i, j \in 1..MaxQueryIds :
        (i < j /\ f[ToString(i)] \in QueryDates /\ f[ToString(j)] \in QueryDates)
            => f[ToString(i)] <= f[ToString(j)]

\* the stores the queries are put to: in c1 any of the messages, each at any
\* of the dates; in c2 one record as a load leaves it
QueryStores ==
    {LET c1 == [m \in {x \in QueryIds : f[x] \in QueryDates} |->
                   TextRecord(FirstNameOf(m), "hi", f[m])]
         c2 == [m \in {"1"} |->
                   [TextRecord("ann", "hi", At(0, 23, 30, 0))
                       EXCEPT !.timestamp.tzinfo = FixedOffset(MoscowOffset)]]
     IN IF DOMAIN c1 = {}
        THEN [c \in {"c2"} |-> c2]
        ELSE [c \in {"c1", "c2"} |-> IF c = "c1" THEN c1 ELSE c2]
     : f \in {g \in [QueryIds -> QueryDates \cup {0 - 1}] : InOrder(g)}}

\* datetime.now(moscow_tz)
get_current_time == astimezone(now, moscow_tz)

\* datetime - timedelta(seconds): the zone stays
minus(ts, seconds) == [ts EXCEPT !.utc = @ - seconds]

\* midnight is taken of the UTC day
replace_midnight_utc(ts) == minus(ts, ts.utc % Day)

\* ts.replace(hour=0, minute=0, second=0, microsecond=0): midnight of the
\* wall clock of the zone ts is told in
replace_midnight(ts) ==
    minus(ts, (ts.utc + utcoffset(ts.tzinfo) * Hour) % Day)

\* the line "sender: text" of a record
Line(msg) == [sender |-> msg.sender, text |-> msg.text]

\* the joined lines, as the lines and how often each stands in the text
Joined(chat, hits) ==
    [lines |-> [l \in {Line(chat[m]) : m \in hits} |->
                   Cardinality({m \in hits : Line(chat[m]) = l})]]

\* the empty string
EmptyString == [lines |-> EmptyBag]

\* the end of the window is left out
relevant_messages_open_end(chat, start_time, end_time) ==
    Joined(chat, {m \in DOMAIN chat :
                     /\ start_time.utc <= chat[m].timestamp.utc
                     /\ chat[m].timestamp.utc < end_time.utc})

\* "\n".join of the lines of the records with
\* start_time <= msg['timestamp'] <= end_time; aware datetimes compare by
\* instant
relevant_messages(chat, start_time, end_time) ==
    Joined(chat, {m \in DOMAIN chat :
                     /\ start_time.utc <= chat[m].timestamp.utc
                     /\ chat[m].timestamp.utc <= end_time.utc})

get_messages(days, chat_id) ==
    LET current_time == get_current_time
        start_time == IF days = 1
                      THEN replace_midnight(current_time)
                      ELSE minus(current_time, days * Day)
    IN IF chat_id \notin DOMAIN message_store
       THEN EmptyString
       ELSE relevant_messages(message_store[chat_id], start_time, current_time)

get_messages_last_hours(hours, chat_id) ==
    LET current_time == get_current_time
        start_time == minus(current_time, hours * Hour)
    IN IF chat_id \notin DOMAIN message_store
       THEN EmptyString
       ELSE relevant_messages(message_store[chat_id], start_time, current_time)

Raised(exception) == [raised |-> exception]

\* datetime.strptime(date_str, '%Y-%m-%d'): the day, or ValueError
strptime(date_str) ==
    CASE date_str = "2024-07-20" -> [ordinal |-> EpochOrdinal]
      [] date_str = "2024-07-19" -> [ordinal |-> EpochOrdinal - 1]
      [] date_str = "2024-7-20" -> [ordinal |-> EpochOrdinal]
      [] date_str = "9999-12-31" -> [ordinal |-> MaxOrdinal]
      [] OTHER -> Raised("ValueError")

\* moscow_tz.localize(target_date): midnight of that day on the wall clock
localize(target_date) ==
    astimezone((target_date.ordinal - EpochOrdinal) * Day
                   - MoscowOffset * Hour, moscow_tz)

\* the day runs to the midnight that ends it, that midnight included
get_messages_for_date_to_next_midnight(date_str, chat_id) ==
    LET target_date == strptime(date_str) IN
    IF target_date = Raised("ValueError") THEN None
    ELSE IF target_date.ordinal + 1 > MaxOrdinal THEN Raised("OverflowError")
    ELSE LET start_time == localize(target_date)
             end_time == minus(start_time, 0 - Day)
         IN IF chat_id \notin DOMAIN message_store
            THEN EmptyString
            ELSE relevant_messages(message_store[chat_id], start_time,
                                   end_time)

\* None for a ValueError; target_date + timedelta(days=1) past the last day
\* raises OverflowError, which the except clause does not name
get_messages_for_date(date_str, chat_id) ==
    LET target_date == strptime(date_str) IN
    IF target_date = Raised("ValueError") THEN None
    ELSE IF target_date.ordinal + 1 > MaxOrdinal THEN Raised("OverflowError")
    ELSE LET start_time == localize(target_date)
             end_time == minus(start_time, 1 - Day)
         IN IF chat_id \notin DOMAIN message_store
            THEN EmptyString
            ELSE relevant_messages(message_store[chat_id], start_time,
                                   end_time)

\* what a summary function answers with: the text about the format, the text
\* about there being nothing, or what the summarizer makes of the messages
Reply(messages) ==
    IF "raised" \in DOMAIN messages THEN messages
    ELSE IF messages = None THEN [kind |-> "invalid format"]
    ELSE IF messages = EmptyString THEN [kind |-> "no messages"]
    ELSE [kind |-> "summary", of |-> messages]

get_summary_for_date(date_str, chat_id) ==
    Reply(get_messages_for_date(date_str, chat_id))

get_top_summary_for_date(date_str, chat_id) ==
    Reply(get_messages_for_date(date_str, chat_id))

\* get_top_summary(days, chat_id): the messages it hands to the summarizer
get_top_summary(days, chat_id) ==
    IF days = 1
    THEN get_messages_last_hours(24, chat_id)
    ELSE get_messages(days, chat_id)

QueryRecord(fn, arg, chat_id, result) ==
    [fn |-> fn, arg |-> arg, chat_id |-> chat_id, result |-> result]

Asked(fn, arg, chat_id, result) ==
    /\ lastQuery' = QueryRecord(fn, arg, chat_id, result)
    /\ UNCHANGED <<now, trackerVars, storeVars>>
    /\ UNCHANGED <<threadVars, loopVars>>

GetMessages ==
    \E days \in {1, 7}, c \in QueryChats :
        Asked("get_messages", days, c, get_messages(days, c))

GetMessagesLastHours ==
    \E hours \in {2, 24}, c \in QueryChats :
        Asked("get_messages_last_hours", hours, c,
              get_messages_last_hours(hours, c))

GetMessagesForDate ==
    \E date_str \in DateLabels, c \in QueryChats :
        Asked("get_messages_for_date", date_str, c,
              get_messages_for_date(date_str, c))

date_command ==
    \E date_str \in DateLabels, c \in QueryChats :
        Asked("date_command", date_str, c, get_summary_for_date(date_str, c))

topdate_command ==
    \E date_str \in DateLabels, c \in QueryChats :
        Asked("topdate_command", date_str, c,
              get_top_summary_for_date(date_str, c))

\* ts.strftime('%d.%m.%Y %H:%M'): the minute the wall clock of the zone of
\* ts shows
strftime(ts) == [minute |-> (ts.utc + utcoffset(ts.tzinfo) * Hour) \div 60]

\* the record of the latest instant is taken for the oldest
min_by_timestamp_takes_latest(messages) ==
    messages[CHOOSE m \in DOMAIN messages :
                \A k \in DOMAIN messages :
                    messages[k].timestamp.utc <= messages[m].timestamp.utc]

\* min(messages.values(), key=lambda x: x['timestamp'])
min_by_timestamp(messages) ==
    messages[CHOOSE m \in DOMAIN messages :
                \A k \in DOMAIN messages :
                    messages[m].timestamp.utc <= messages[k].timestamp.utc]

\* max(messages.values(), key=lambda x: x['timestamp'])
max_by_timestamp(messages) ==
    messages[CHOOSE m \in DOMAIN messages :
                \A k \in DOMAIN messages :
                    messages[k].timestamp.utc <= messages[m].timestamp.utc]

\* what /debug writes into its reply: the lines of the oldest and of the
\* newest are left out for a chat without messages
debug_info(chat_id) ==
    LET messages == IF chat_id \in DOMAIN message_store
                    THEN message_store[chat_id]
                    ELSE <<>>
        message_count == Cardinality(DOMAIN messages)
        counter == IF chat_id \in DOMAIN message_counters
                   THEN message_counters[chat_id] ELSE 0
    IN [message_count |-> message_count,
        oldest |-> IF message_count # 0
                   THEN strftime(min_by_timestamp(messages).timestamp)
                   ELSE None,
        newest |-> IF message_count # 0
                   THEN strftime(max_by_timestamp(messages).timestamp)
                   ELSE None,
        current_time |-> strftime(get_current_time),
        threads |-> Cardinality(DOMAIN chat_threads),
        counter |-> counter]

debug_command ==
    \E c \in QueryChats :
        Asked("debug_command", 0, c, debug_info(c))

DebugNext ==
    \/ debug_command

\* what the call of the summarizer does
SummarizerOutcomes == {"answers", "raises"}

\* the exception of the summarizer leaves the function
summarize_propagates(messages, failure, outcome) ==
    IF messages = EmptyString THEN [kind |-> "no messages"]
    ELSE IF outcome = "raises" THEN Raised("Exception")
    ELSE [kind |-> "summary", of |-> messages]

\* if not messages: return the text about there being nothing; try: the
\* text of the summarizer; except Exception: the text about the failure
summarize(messages, failure, outcome) ==
    IF messages = EmptyString THEN [kind |-> "no messages"]
    ELSE IF outcome = "raises" THEN [kind |-> "failure", text |-> failure]
    ELSE [kind |-> "summary", of |-> messages]

\* get_summary(days, chat_id): the last 24 hours for days = 1
get_summary(days, chat_id, outcome) ==
    summarize(IF days = 1
              THEN get_messages_last_hours(24, chat_id)
              ELSE get_messages(days, chat_id), "summary", outcome)

get_summary_last_hours(hours, chat_id, outcome) ==
    summarize(get_messages_last_hours(hours, chat_id), "summary", outcome)

\* get_top_summary(days, chat_id) with the call of the summarizer
get_top_summary_text(days, chat_id, outcome) ==
    summarize(get_top_summary(days, chat_id), "top", outcome)

\* a summary function was called; the record keeps whether the summarizer
\* was called and what it did
Summarized(fn, arg, chat_id, outcome, result) ==
    /\ lastQuery' = [fn |-> fn, arg |-> arg, chat_id |-> chat_id,
                     result |-> result,
                     summarizer |-> IF result = [kind |-> "no messages"]
                                    THEN "not called" ELSE outcome]
    /\ UNCHANGED <<now, trackerVars, storeVars>>
    /\ UNCHANGED <<threadVars, loopVars>>

GetSummary ==
    \E days \in {1, 7}, c \in QueryChats, outcome \in SummarizerOutcomes :
        Summarized("get_summary", days, c, outcome,
                   get_summary(days, c, outcome))

GetSummaryLastHours ==
    \E hours \in {2, 24}, c \in QueryChats, outcome \in SummarizerOutcomes :
        Summarized("get_summary_last_hours", hours, c, outcome,
                   get_summary_last_hours(hours, c, outcome))

GetTopSummary ==
    \E days \in {1, 7}, c \in QueryChats, outcome \in SummarizerOutcomes :
        Summarized("get_top_summary", days, c, outcome,
                   get_top_summary_text(days, c, outcome))

SummaryNext ==
    \/ GetSummary
    \/ GetSummaryLastHours
    \/ GetTopSummary

\* send_daily_reports: every chat with a message since midnight gets the top
\* of get_top_summary(1, chat_id); the record keeps what went to the
\* summarizer, chat by chat; at the end the threads are trimmed
send_daily_reports ==
    LET reported == {c \in DOMAIN message_store :
                        get_messages(1, c) # EmptyString}
    IN /\ lastQuery' = QueryRecord("send_daily_reports", 1, "all",
                                   [c \in reported |-> get_top_summary(1, c)])
       /\ chat_threads' = cleanup_chat_threads(chat_threads)
       /\ UNCHANGED loopVars
       /\ UNCHANGED <<now, trackerVars, storeVars, message_counters,
                      AUTO_RESPONSE_INTERVAL, turns, asked>>

\* nothing handed to the executor, nobody asked to name a song
LoopInit ==
    /\ workers = {}
    /\ custom_song_wait = {}

\* the store of a process that has loaded c2 from the file and has since
\* taken in the messages of c1
QueryInit ==
    /\ TrackerInit
    /\ LoopInit
    /\ message_store \in QueryStores
    /\ LET n == IF "c1" \in DOMAIN message_store
                THEN Cardinality(DOMAIN message_store["c1"])
                ELSE 0
       IN /\ save_counter = n
          /\ lastSave = [force |-> FALSE, nth |-> n, wrote |-> FALSE]
          /\ caller = IF n = 0 THEN "none" ELSE "message_handler"
    /\ disk = [store |-> File(Serialize([c \in {"c2"} |-> message_store[c]]),
                              TRUE),
               tmp |-> Absent, backups |-> <<>>]
    /\ pc = "idle"
    /\ serializable_data = NoData
    /\ prevFile = Absent
    /\ lastLoad = NoLoad
    /\ now \in Clock
    /\ lastQuery = [fn |-> "none"]
    /\ chat_threads = NoThreads
    /\ message_counters = NoCounts
    /\ turns = <<>>
    /\ asked = 0
    /\ AUTO_RESPONSE_INTERVAL = 0

QueryNext ==
    \/ GetMessages
    \/ GetMessagesLastHours
    \/ GetMessagesForDate
    \/ date_command
    \/ topdate_command
    \/ send_daily_reports

MaxAppends == 1

\* a message as Telegram hands it to message_handler
AppendNames == {"zed", ""}

AppendTexts == {"yo"}

AppendDates == {At(0, 23, 59, 0)}

\* a process whose chat c1 holds a record under every message id
AppendInit ==
    /\ QueryInit
    /\ now = At(0, 23, 45, 0)
    /\ save_counter = MaxQueryIds

AppendText ==
    \E c \in QueryChats, m \in QueryIds, n \in AppendNames, x \in AppendTexts,
       d \in AppendDates :
        /\ save_counter < MaxQueryIds + MaxAppends
        /\ message_handler_text(c, m, n, x, d)

AppendVoice ==
    \E c \in QueryChats, m \in QueryIds, n \in AppendNames, x \in AppendTexts,
       d \in AppendDates :
        /\ save_counter < MaxQueryIds + MaxAppends
        /\ message_handler_voice(c, m, n, x, d)

AppendNext ==
    \/ AppendText
    \/ AppendVoice

NoQuery == [fn |-> "none"]

\* no thread yet, no text counted
ThreadInit ==
    /\ chat_threads = NoThreads
    /\ message_counters = NoCounts
    /\ turns = <<>>
    /\ asked = 0

\* AUTO_RESPONSE_INTERVAL = 0 in config.py: no text is answered unasked
Init ==
    /\ TrackerInit
    /\ StoreInit
    /\ LoopInit
    /\ now = 0
    /\ lastQuery = NoQuery
    /\ ThreadInit
    /\ AUTO_RESPONSE_INTERVAL = 0

\* the chat whose thread is followed to its trimming and past it
ThreadChats == {"c1"}

Question ==
    \E c \in ThreadChats, ok \in BOOLEAN :
        message_handler_question(c, Serial(c), ok)

SlashQ ==
    \E c \in ThreadChats, ok \in BOOLEAN : chatgpt_query(c, Serial(c), ok)

ThreadText ==
    \E c \in ThreadChats, m \in MessageIds, n \in FirstNames, x \in Texts,
       d \in Dates :
        message_handler_text(c, m, n, x, d)

\* what ThreadCap - 2 entries of questions answered leave behind the system
\* message
Answered ==
    [i \in 1..(ThreadCap - 2) |->
        IF i % 2 = 1
        THEN Turn("user", ToString(i))
        ELSE Turn("assistant", ToString(i - 1))]

\* a process that has not been asked yet, or has answered the questions of
\* Answered; AUTO_RESPONSE_INTERVAL = 1 in config.py: every text is answered
ThreadSpecInit ==
    /\ TrackerInit
    /\ StoreInit
    /\ LoopInit
    /\ now = 0
    /\ lastQuery = NoQuery
    /\ message_counters = NoCounts
    /\ asked = 0
    /\ \/ chat_threads = NoThreads /\ turns = <<>>
       \/ /\ chat_threads = [c \in ThreadChats |-> <<Seed>> \o Answered]
          /\ turns = [c \in ThreadChats |-> Answered]
    /\ AUTO_RESPONSE_INTERVAL = 1

ThreadNext ==
    \/ Question
    \/ SlashQ
    \/ ThreadText
    \/ send_daily_reports

MaxUnanswered == 5

\* what a thread has taken in after k questions that were answered and then
\* f whose call raised
TakenIn(k, f) ==
    [i \in 1..(2 * k + f) |->
        IF i > 2 * k \/ i % 2 = 1
        THEN Turn("user", ToString(i))
        ELSE Turn("assistant", ToString(i - 1))]

\* the threads the daily trimming may find: untrimmed, with up to
\* MaxUnanswered questions unanswered at their end
TrimInit ==
    /\ TrackerInit
    /\ StoreInit
    /\ LoopInit
    /\ now = 0
    /\ lastQuery = NoQuery
    /\ message_counters = NoCounts
    /\ asked = 0
    /\ AUTO_RESPONSE_INTERVAL = 0
    /\ \E k \in 0..(ThreadCap \div 2 - 1), f \in 0..MaxUnanswered :
          /\ turns = [c \in ThreadChats |-> TakenIn(k, f)]
          /\ chat_threads = [c \in ThreadChats |-> <<Seed>> \o TakenIn(k, f)]

TrimNext == send_daily_reports

\* the threads of any of the chats, each of a length of its own
SweepInit ==
    /\ TrackerInit
    /\ StoreInit
    /\ LoopInit
    /\ now = 0
    /\ lastQuery = NoQuery
    /\ message_counters = NoCounts
    /\ asked = 0
    /\ AUTO_RESPONSE_INTERVAL = 0
    /\ \E taken \in [Chats -> {TakenIn(k, f) :
                                  k \in 0..(ThreadCap \div 2 - 1),
                                  f \in 0..MaxUnanswered}],
          asking \in SUBSET Chats :
          /\ turns = [c \in asking |-> taken[c]]
          /\ chat_threads = [c \in asking |-> <<Seed>> \o taken[c]]

SweepNext == send_daily_reports

\* one song of chat c1 ordered and its state asked for, once
RunSong ==
    /\ SongOfTheDay
    /\ submits'["t1"] <= 1
    /\ submits'["t2"] = 0

\* the status check gives nothing, or the song with its one track, which
\* is sent
RunPoll ==
    \/ \E job \in DOMAIN job_queue :
           \E r \in {None, [status |-> "SUCCESS",
                             response |-> [sunoData |-> <<TRUE>>]]} :
               poll_fire(job, r) /\ npolls' <= 1
    \/ \E p \in DOMAIN running : poll_resume(p, NoRaise)

RunQuestion ==
    \E c \in ThreadChats, ok \in BOOLEAN :
        /\ message_handler_question(c, Serial(c), ok)
        /\ asked' <= 1

RunText ==
    \E c \in ThreadChats, m \in MessageIds, n \in FirstNames, x \in Texts,
       d \in Dates :
        message_handler_text(c, m, n, x, d)

RunVoice ==
    \E c \in ThreadChats, m \in MessageIds, n \in FirstNames, x \in Texts,
       d \in Dates :
        message_handler_voice(c, m, n, x, d)

RunQuery ==
    \E c \in Chats : Asked("get_messages", 1, c, get_messages(1, c))

\* one run of the process with all that it does to the store or beside it
RunNext ==
    \/ RunText
    \/ RunVoice
    \/ SaveOpen
    \/ SaveDump
    \/ SaveReplace
    \/ SaveExcept
    \/ RunQuery
    \/ send_daily_reports
    \/ RunQuestion
    \/ RunSong
    \/ RunPoll

\* a process that is asked and told things, stops or is killed, and starts
\* again
RestartNext ==
    \/ Question
    \/ RunText
    \/ main_finally
    \/ SaveOpen
    \/ SaveDump
    \/ SaveReplace
    \/ SaveExcept
    \/ Crash
    \/ Restart

(* The executor: analyses that read message_store on a thread of the pool *)

MaxWorkers == 1

WorkerFns == {"analyze_chat_and_generate_song", "analyze_director_and_gift"}

\* a call handed to the pool: where it stands, the size the dict had when
\* its iteration began, and what it came to
Worker(fn, chat_id, at, size, result) ==
    [fn |-> fn, chat_id |-> chat_id, at |-> at, size |-> size,
     result |-> result]

\* await loop.run_in_executor(None, fn, message_store, chat_id): the dict
\* itself is handed over, and the event loop goes on with other handlers
run_in_executor(fn, chat_id) ==
    /\ pc = "idle"
    /\ Cardinality(workers) < MaxWorkers
    /\ workers' = workers \cup {Worker(fn, chat_id, "queued", 0, "none")}
    /\ UNCHANGED <<custom_song_wait, trackerVars, storeVars, queryVars,
                   threadVars>>

\* get_messages_last_24h on the pool's thread: "" for a chat not in the
\* store, else the list comprehension over message_store[chat_id].values()
\* begins
get_messages_last_24h_begins(w) ==
    /\ w \in workers
    /\ w.at = "queued"
    /\ workers' = (workers \ {w}) \cup
          {IF w.chat_id \in DOMAIN message_store
           THEN [w EXCEPT !.at = "iterating",
                          !.size = Cardinality(DOMAIN
                                       message_store[w.chat_id])]
           ELSE [w EXCEPT !.at = "done", !.result = "no messages"]}
    /\ UNCHANGED <<custom_song_wait, trackerVars, storeVars, queryVars,
                   threadVars>>

\* the iteration comes to its end: a dict that has grown since it began makes
\* next() raise RuntimeError, which analyze_... catches
get_messages_last_24h_ends(w) ==
    /\ w \in workers
    /\ w.at = "iterating"
    /\ workers' = (workers \ {w}) \cup
          {[w EXCEPT !.at = "done",
                     !.result =
                        IF Cardinality(DOMAIN message_store[w.chat_id])
                              # w.size
                        THEN "RuntimeError" ELSE "messages"]}
    /\ UNCHANGED <<custom_song_wait, trackerVars, storeVars, queryVars,
                   threadVars>>

\* the await of run_in_executor is resumed with what the call returned
executor_returns(w) ==
    /\ w \in workers
    /\ w.at = "done"
    /\ pc = "idle"
    /\ workers' = workers \ {w}
    /\ UNCHANGED <<custom_song_wait, trackerVars, storeVars, queryVars,
                   threadVars>>

SongAnalysis ==
    \E c \in QueryChats :
        run_in_executor("analyze_chat_and_generate_song", c)

DirectorAnalysis ==
    \E c \in QueryChats : run_in_executor("analyze_director_and_gift", c)

WorkerBegins == \E w \in workers : get_messages_last_24h_begins(w)

WorkerEnds == \E w \in workers : get_messages_last_24h_ends(w)

ExecutorReturns == \E w \in workers : executor_returns(w)

WorkerNext ==
    \/ AppendText
    \/ AppendVoice
    \/ SongAnalysis
    \/ DirectorAnalysis
    \/ WorkerBegins
    \/ WorkerEnds
    \/ ExecutorReturns

(* The batching of the saves, every write going through *)

MaxBatchIds == 11

\* the message ids of a chat, in the order Telegram gives them out
BatchIds == {ToString(i) : i \in 1..MaxBatchIds}

\* the id of the next message of a chat
NextId(chat_id) ==
    ToString(IF chat_id \in DOMAIN message_store
             THEN Cardinality(DOMAIN message_store[chat_id]) + 1
             ELSE 1)

BatchText ==
    \E n \in FirstNames, x \in Texts, d \in Dates :
        /\ NextId("c1") \in BatchIds
        /\ message_handler_text("c1", NextId("c1"), n, x, d)

BatchOpen == save_open(TRUE)

BatchDump == save_dump(TRUE)

BatchReplace == save_replace(TRUE)

BatchNext ==
    \/ BatchText
    \/ main_finally
    \/ BatchOpen
    \/ BatchDump
    \/ BatchReplace
    \/ Restart

-----------------------------------------------------------------------------
(* message_handler, a text from its arrival to the branch that takes it *)

\* who writes: context.user_data is one dict for each of them
Users == {"u1", "u2"}

\* the last button of get_main_keyboard()
OrderButton == "order a song"

\* the texts message_handler hands to handle_keyboard_buttons
KeyboardButtons ==
    {"summary", "top of the day", "top 7d", "what is going on here", "gift",
     "song of the day"}

\* message.text[1:].strip() of a text that starts with "?"; "" stands for a
\* text that does not start with "?" as well, for neither is a question
prompt_of(text) == IF text = "?why" THEN "why" ELSE ""

\* the branch of message_handler a text of this user in this chat goes to
branch_of(user, chat_id, text) ==
    IF <<user, chat_id>> \in custom_song_wait THEN "custom song"
    ELSE IF text \in KeyboardButtons THEN "button"
    ELSE IF prompt_of(text) # "" THEN "question"
    ELSE "text"

\* handle_keyboard_buttons: the chain of if and elif on the text
handle_keyboard_buttons(user, chat_id, text, outcome) ==
    CASE text = "summary" ->
            Summarized("get_summary", 1, chat_id, outcome,
                       get_summary(1, chat_id, outcome))
      [] text = "top of the day" ->
            Summarized("get_top_summary", 1, chat_id, outcome,
                       get_top_summary_text(1, chat_id, outcome))
      [] text = "top 7d" ->
            Summarized("get_top_summary", 7, chat_id, outcome,
                       get_top_summary_text(7, chat_id, outcome))
      [] text = "what is going on here" ->
            Summarized("get_summary_last_hours", 2, chat_id, outcome,
                       get_summary_last_hours(2, chat_id, outcome))
      [] text = "gift" ->
            run_in_executor("analyze_director_and_gift", chat_id)
      [] text = "song of the day" ->
            run_in_executor("analyze_chat_and_generate_song", chat_id)
      [] text = OrderButton ->
            /\ custom_song_wait' = custom_song_wait \cup {<<user, chat_id>>}
            /\ UNCHANGED <<workers, trackerVars, storeVars, queryVars,
                           threadVars>>
      [] OTHER ->
            UNCHANGED vars

\* the custom_song_wait branch: the flag popped, then the song made and
\* handed to Suno, or not made, or an exception caught; in each case the
\* handler returns
custom_song_request(user, chat_id, made, s, suno_result) ==
    /\ custom_song_wait' = custom_song_wait \ {<<user, chat_id>>}
    /\ IF made
       THEN /\ record_song_task(chat_id, s, suno_result)
            /\ UNCHANGED <<running, sink, npolls, hist, last, checking>>
       ELSE UNCHANGED trackerVars
    /\ UNCHANGED <<workers, storeVars, queryVars, threadVars>>

\* message_handler for a message with a text
message_handler(user, chat_id, message_id, first_name, text, date) ==
    /\ pc = "idle"
    /\ CASE branch_of(user, chat_id, text) = "custom song" ->
               \E made \in BOOLEAN, s \in Songs, res \in SunoResults :
                   /\ FromOwner(chat_id, res)
                   /\ Fresh(res)
                   /\ custom_song_request(user, chat_id, made, s, res)
         [] branch_of(user, chat_id, text) = "button" ->
               \E outcome \in SummarizerOutcomes :
                   handle_keyboard_buttons(user, chat_id, text, outcome)
         [] branch_of(user, chat_id, text) = "question" ->
               \E ok \in BOOLEAN :
                   message_handler_question(chat_id, prompt_of(text), ok)
         [] OTHER ->
               message_handler_text(chat_id, message_id, first_name, text,
                                    date)

MaxHandlerIds == 4
MaxInterval == 2

HandlerIds == {ToString(i) : i \in 1..MaxHandlerIds}

\* what the users write: the last button, a button of the list, a
\* question, and a text that is none of these
HandlerTexts == {OrderButton, "summary", "?why", "hi"}

\* a process that has just started on no file, answering unasked every
\* text or every second one
HandlerInit ==
    /\ TrackerInit
    /\ StoreInit
    /\ LoopInit
    /\ now = 0
    /\ lastQuery = NoQuery
    /\ ThreadInit
    /\ AUTO_RESPONSE_INTERVAL \in 1..MaxInterval

HandlerText ==
    \E u \in Users, c \in ThreadChats, n \in FirstNames, x \in HandlerTexts,
       d \in Dates :
        /\ NextId(c) \in HandlerIds
        /\ message_handler(u, c, NextId(c), n, x, d)

HandlerVoice ==
    \E c \in ThreadChats, n \in FirstNames, x \in Texts, d \in Dates :
        /\ NextId(c) \in HandlerIds
        /\ message_handler_voice(c, NextId(c), n, x, d)

HandlerNext ==
    \/ HandlerText
    \/ HandlerVoice
    \/ Crash
    \/ Restart

\* the answers of a status check that names a terminal status
TerminalAnswers ==
    {r \in check_suno_task_status :
        r # None /\ r.status \in {"SUCCESS"} \cup FailureTags}

\* from here on every status check answers with a terminal status and every
\* send is accepted
TerminalPoll ==
    \E job \in DOMAIN job_queue, r \in TerminalAnswers : poll_fire_on(job, r)

TerminalResume ==
    \E p \in DOMAIN running : poll_resume(p, NoRaise)

TerminalNext ==
    \/ SongOfTheDay
    \/ TerminalPoll
    \/ TerminalResume

\* the polls with the status check as a call that is begun and returns; while
\* it has not returned the event loop stands in it
PollSong ==
    /\ checking = NotChecking
    /\ RunSong

PollBegin ==
    \E job \in DOMAIN job_queue : poll_begin(job)

PollStatusReturns ==
    \E r \in check_suno_task_status : poll_status_returns(r)

PollResume ==
    /\ checking = NotChecking
    /\ \E p \in DOMAIN running, stop \in 0..MaxTracks : poll_resume(p, stop)

PollNext ==
    \/ PollSong
    \/ PollBegin
    \/ PollStatusReturns
    \/ PollResume

\* the messages of two users in a chat, each taken by message_handler
HandlerSpec == HandlerInit /\ [][HandlerNext]_vars

\* the tracker with the task ids Suno gives out, each its own
TrackerSpec == Init /\ [][TrackerNext]_vars

\* the tracker were Suno to give a task id twice
TrackerReuseSpec == Init /\ [][TrackerReuseNext]_vars

\* the message store, its file, and the process that comes and goes
StoreSpec == Init /\ [][StoreNext]_vars

\* starts, stops and a file damaged from outside
RecoverySpec == Init /\ [][RecoveryNext]_vars

\* the queries, put to every store of QueryStores at every time of Clock
QuerySpec == QueryInit /\ [][QueryNext]_vars

\* messages coming in to a store that holds records already
AppendSpec == AppendInit /\ [][AppendNext]_vars

\* a process at work, from its start on
RunSpec == Init /\ [][RunNext]_vars

\* The job queue runs a job that is due, and the sends a poll awaits are
\* bounded by the timeouts of the bot's requests: these steps are taken when
\* they can be.  requests.get of the status is called without a timeout, so
\* that it returns is up to the endpoint, and nothing makes that step happen.
PollSpec ==
    /\ Init
    /\ [][PollNext]_vars
    /\ WF_vars(PollBegin)
    /\ WF_vars(PollResume)

\* the daily trimming, of the threads of several chats
SweepSpec == SweepInit /\ [][SweepNext]_vars

\* messages coming in while the pool reads the store
WorkerSpec == AppendInit /\ [][WorkerNext]_vars

\* The job queue runs a job that is due and the sends of a poll return: the
\* polls and their deliveries are taken when they can be.
TerminalSpec ==
    /\ Init
    /\ [][TerminalNext]_vars
    /\ WF_vars(TerminalPoll)
    /\ WF_vars(TerminalResume)

\* messages with ids of their own coming in, saved in batches by writes that
\* all go through, and the process ending and starting again
BatchSpec == Init /\ [][BatchNext]_vars

\* /debug in chats of every shape
DebugSpec == QueryInit /\ [][DebugNext]_vars

\* the summaries of stores of every shape, the summarizer answering or not
SummarySpec == QueryInit /\ [][SummaryNext]_vars

\* the threads across the ends and starts of the process
RestartSpec == Init /\ [][RestartNext]_vars

\* the daily trimming, of threads of every length
TrimSpec == TrimInit /\ [][TrimNext]_vars

\* questions, commands and texts that ChatGPT is asked about, and the daily
\* trimming of the threads
ThreadSpec == ThreadSpecInit /\ [][ThreadNext]_vars

-----------------------------------------------------------------------------
(* The tracker: properties *)

Terminal == {"success", "failure"}

Polled == last.task_id \in JobIds

C2_NoSecondDelivery ==
    /\ \A m \in DOMAIN sink : sink[m] = 1
    /\ (Polled /\ last.kind \in Terminal /\ last.raised # RaisedByAnswer)
          => last.scheduled = <<>>

\* C3: when a poll has seen a terminal status and a send of it raised, the
\* entry of the task is removed by that poll all the same.
C3_RemovedThoughSendRaised ==
    (Polled /\ last.kind \in Terminal /\ last.raised = RaisedBySend)
        => last.task_id \notin DOMAIN song_tasks

\* C4: when a poll has seen a failure tag, the chat of the task has received
\* the failure notice, exactly once; the entry is removed; no further poll
\* is scheduled.
C4_FailureNotifiedOnce ==
    (Polled /\ last.kind = "failure") =>
        /\ CopiesIn([chat_id |-> last.chat_id, task_id |-> last.task_id,
                     kind |-> "failed", track |-> 0], sink) = 1
        /\ last.task_id \notin DOMAIN song_tasks
        /\ last.scheduled = <<>>

\* C5: a poll that fires for a task id without an entry hands nothing to the
\* chat and schedules no further poll.
C5_AbsentEntryNoOp ==
    (Polled /\ ~last.had_entry) => (last.sent = 0 /\ last.scheduled = <<>>)

\* a step of one of the two submitting handlers
SubmitStep ==
    /\ lastSubmit' # NoSubmit
    /\ lastSubmit' # lastSubmit \/ submits' # submits
    /\ UNCHANGED <<running, sink, npolls, hist, last>>
    /\ UNCHANGED nonTrackerVars

\* C6: a submission that got a task id records one entry, under that task
\* id and for the chat, leaves the other entries as they are, and schedules
\* one poll of it, with delay 180; a submission that got none leaves the
\* entries and the queue as they are.
C6_SubmissionRecordsAndSchedules ==
    [][SubmitStep =>
          LET res == lastSubmit'.res
          IN  IF res # None
              THEN /\ DOMAIN song_tasks' = DOMAIN song_tasks \cup {res.task_id}
                   /\ song_tasks'[res.task_id].chat_id = Owner(res.task_id)
                   /\ \A t \in DOMAIN song_tasks \ {res.task_id} :
                         song_tasks'[t] = song_tasks[t]
                   /\ job_queue' = job_queue (+)
                         One(Job(res.task_id, Owner(res.task_id)))
                   /\ lastSubmit'.scheduled = <<FirstPollDelay>>
              ELSE /\ song_tasks' = song_tasks
                   /\ job_queue' = job_queue
                   /\ lastSubmit'.scheduled = <<>>]_vars

\* both task ids submitted, the second submission still the last event
C6_Witness ==
    /\ lastSubmit.res = [task_id |-> "t2"]
    /\ DOMAIN song_tasks = {"t1", "t2"}
    /\ Pending(job_queue, "t1") = 1
    /\ Pending(job_queue, "t2") = 1

\* C7: every poll ends in one decision, given by what it met: an exception
\* -> one successor with delay 120; otherwise no status -> one with delay
\* 60; a status not terminal -> one with delay 30; SUCCESS or a failure
\* tag -> none.  No poll schedules two successors.
C7_OneDecisionPerPoll ==
    Polled =>
        /\ Len(last.scheduled) <= 1
        /\ last.scheduled =
              IF last.raised # Returned THEN <<ErrorDelay>>
              ELSE IF last.kind = "none" THEN <<NoStatusDelay>>
              ELSE IF last.kind = "other" THEN <<NotReadyDelay>>
              ELSE <<>>

\* a poll that met no status, after one that met a status not terminal
C7_Witness ==
    /\ Polled
    /\ last.kind = "none"
    /\ last.scheduled = <<NoStatusDelay>>
    /\ hist[last.task_id] = "waiting"
    /\ npolls >= 2

\* C8: however many polls of a task met no status or a status not terminal,
\* and nothing else, the entry of the task is still there and one more poll
\* of it is pending (or has fired and is at its first send): the tracker
\* counts no attempts and gives up on no task.
C8_NoAttemptBound ==
    \A t \in JobIds :
        hist[t] = "waiting" =>
            /\ t \in DOMAIN song_tasks
            /\ Pending(job_queue, t) + Suspended(running, t) = 1

\* every poll the bound allows went to one task and none was terminal
C8_Witness ==
    /\ hist["t1"] = "waiting"
    /\ submits["t2"] = 0
    /\ npolls = MaxPolls
    /\ "t1" \in DOMAIN song_tasks
    /\ Pending(job_queue, "t1") = 1

-----------------------------------------------------------------------------
(* The message store: properties *)

\* C9: counting from a start of the process, a call of save_messages_to_file
\* attempts a write exactly when it is forced or is the tenth call since the
\* last attempt (or since the start); so nine unforced calls write nothing,
\* the tenth writes, and a forced call writes and starts the count again.
C9_WriteEveryTenthOrForced ==
    lastSave.nth > 0 =>
        /\ lastSave.nth <= SAVE_BATCH_SIZE
        /\ lastSave.wrote <=>
              (lastSave.force \/ lastSave.nth = SAVE_BATCH_SIZE)
        /\ save_counter = IF lastSave.wrote THEN 0 ELSE lastSave.nth

C9_Witness ==
    /\ lastSave = [force |-> FALSE, nth |-> SAVE_BATCH_SIZE, wrote |-> TRUE]
    /\ pc = "idle"
    /\ disk.store = File(Serialize(message_store), TRUE)

\* C10: whatever a save does, and wherever a write error or a kill of the
\* process cuts it, the file of the store is missing or holds a whole
\* snapshot; and when it changes, it changes in one step to the whole
\* snapshot of the store being saved.
C10_FileNeverPartial ==
    /\ [](disk.store.exists => disk.store.whole)
    /\ [][disk.store' # disk.store =>
            disk.store' = File(Serialize(message_store), TRUE)]_vars

C10_Witness ==
    /\ pc = "down"
    /\ disk.tmp.exists /\ ~disk.tmp.whole
    /\ disk.store.exists /\ disk.store.whole
    /\ disk.store.json # disk.tmp.json

\* records of two stores agree: the same chats, the same message ids, and
\* under each the same sender, text and instant
SameRecords(a, b) ==
    /\ DOMAIN a = DOMAIN b
    /\ \A c \in DOMAIN a :
          /\ DOMAIN a[c] = DOMAIN b[c]
          /\ \A m \in DOMAIN a[c] :
                /\ a[c][m].sender = b[c][m].sender
                /\ a[c][m].text = b[c][m].text
                /\ a[c][m].timestamp.utc = b[c][m].timestamp.utc

\* C11: when main has ended with its forced save written and the process
\* starts again, the store load_messages_from_file returns has the chats, the
\* message ids and, under each, the sender, text and instant of the store
\* that was saved.
C11_SaveLoadRoundTrip ==
    (lastLoad.loaded /\ lastLoad.saved) =>
        SameRecords(message_store, lastLoad.before)

C11_Witness ==
    /\ lastLoad.loaded /\ lastLoad.saved
    /\ DOMAIN lastLoad.before = Chats
    /\ \E c \in Chats : lastLoad.before[c]["1"].text.voice
    /\ \E c \in Chats : lastLoad.before[c]["1"].timestamp.tzinfo = moscow_tz
    /\ pc = "idle"

\* C12: whatever is wrong with the file (not JSON, the wrong shape at the
\* top or under a chat, a record without timestamp, a timestamp of the wrong
\* type or one that does not parse), no start ends in an exception of the
\* load, and the start that found such a file has renamed it aside and
\* begins with an empty store.
C12_LoadSetsAsideWhateverIsWrong ==
    /\ "raised" \notin DOMAIN lastLoad
    /\ "found" \in DOMAIN lastLoad =>
          /\ pc = "idle"
          /\ message_store = <<>>
          /\ disk.store = Absent
          /\ lastLoad.stamp \in DOMAIN disk.backups
          /\ disk.backups[lastLoad.stamp] = lastLoad.found.store

\* C13: a load that sets a file aside leaves its content under a backup name
\* and no file under the name of the store; and no step of a save or of a
\* load takes a backup away or changes what it holds.
C13_BackupKept ==
    [][/\ \A n \in DOMAIN disk.backups :
             /\ n \in DOMAIN disk'.backups
             /\ disk'.backups[n] = disk.backups[n]
       /\ disk'.backups # disk.backups =>
             /\ disk'.store = Absent
             /\ \E n \in DOMAIN disk'.backups : disk'.backups[n] = disk.store
      ]_vars

\* C14: when a step of the write has raised, the save comes back to its
\* caller with the store in memory as it was, the file of the store as it
\* was before the save, and no temporary file left.
C14_FailedWriteReturnsClean ==
    [][(pc = "except" /\ caller' = caller) =>
          /\ pc' = AfterSave(caller = "main")
          /\ message_store' = message_store
          /\ disk'.store = disk.store
          /\ disk'.store = prevFile
          /\ ~disk'.tmp.exists
      ]_vars

-----------------------------------------------------------------------------
(* Queries: properties *)

\* the records of a chat of the store with lo <= instant <= hi
Between(c, lo, hi) ==
    IF c \in DOMAIN message_store
    THEN {m \in DOMAIN message_store[c] :
             /\ lo <= message_store[c][m].timestamp.utc
             /\ message_store[c][m].timestamp.utc <= hi}
    ELSE {}

\* an answer holds the line of each of these records of a chat, once for
\* each record, and no other line
AnswersWith(answer, c, ids) ==
    /\ "lines" \in DOMAIN answer
    /\ BagCardinality(answer.lines) = Cardinality(ids)
    /\ \A m \in ids :
          CopiesIn(Line(message_store[c][m]), answer.lines) =
             Cardinality({x \in ids : Line(message_store[c][x]) =
                                         Line(message_store[c][m])})

\* midnight of the wall clock of Moscow before the clock's now
Midnight ==
    CHOOSE t \in {At(d, 0, 0, 0) : d \in (0 - 1)..1} : t <= now /\ now < t + Day

\* where the window of a query begins
WindowStart(q) ==
    IF q.fn = "get_messages_last_hours" THEN now - q.arg * Hour
    ELSE IF q.arg = 1 THEN Midnight
    ELSE now - q.arg * Day

\* C15: get_messages and get_messages_last_hours answer, for every chat and
\* every window they are asked for, with the lines of exactly the records of
\* the chat with start <= timestamp <= end, a record at the very start or at
\* the very end included; and with the empty string, no error, for a chat
\* the store does not know or a window no record falls in.
C15_WindowQueryExact ==
    lastQuery.fn \in {"get_messages", "get_messages_last_hours"} =>
        /\ AnswersWith(lastQuery.result, lastQuery.chat_id,
                       Between(lastQuery.chat_id, WindowStart(lastQuery), now))
        /\ lastQuery.chat_id \notin DOMAIN message_store =>
              lastQuery.result = EmptyString

C15_Witness ==
    /\ lastQuery.fn = "get_messages_last_hours"
    /\ lastQuery.arg = 2
    /\ lastQuery.chat_id = "c1"
    /\ now = At(0, 23, 45, 0)
    /\ "c1" \in DOMAIN message_store
    /\ DOMAIN message_store["c1"] = {"1", "2", "3"}
    /\ message_store["c1"]["1"].timestamp.utc = At(0, 21, 45, 0)
    /\ message_store["c1"]["2"].timestamp.utc = At(0, 23, 45, 0)
    /\ message_store["c1"]["3"].timestamp.utc = At(0, 23, 45, 1)
    /\ BagCardinality(lastQuery.result.lines) = 2

\* the labels that name a day of the calendar
IsDate(label) == label \in {"2024-07-20", "2024-7-20", "2024-07-19", "9999-12-31"}

\* the records of a chat stamped on the day a label names, 00:00:00 to
\* 23:59:59 of the wall clock of Moscow
OnDay(c, label) ==
    IF label \in {"2024-07-20", "2024-7-20"}
    THEN Between(c, At(0, 0, 0, 0), At(0, 23, 59, 59))
    ELSE IF label = "2024-07-19"
    THEN Between(c, At(0 - 1, 0, 0, 0), At(0 - 1, 23, 59, 59))
    ELSE {}

\* C16: get_messages_for_date answers None exactly for the labels that name
\* no day, whatever the chat holds, and the empty string for a day without
\* records of the chat; date_command and topdate_command report the first as
\* a wrong format and the second as no messages, never one for the other.
C16_DateQueryOutcomes ==
    /\ lastQuery.fn = "get_messages_for_date" =>
          /\ lastQuery.result = None <=> ~IsDate(lastQuery.arg)
          /\ (IsDate(lastQuery.arg)
                /\ OnDay(lastQuery.chat_id, lastQuery.arg) = {})
                => lastQuery.result = EmptyString
    /\ lastQuery.fn \in {"date_command", "topdate_command"} =>
          /\ lastQuery.result = [kind |-> "invalid format"]
                <=> ~IsDate(lastQuery.arg)
          /\ (IsDate(lastQuery.arg)
                /\ OnDay(lastQuery.chat_id, lastQuery.arg) = {})
                => lastQuery.result = [kind |-> "no messages"]

\* messages of c1 at 09:00, 13:00 and 23:30 of one day, and the clock at
\* 23:45 of that day
DayScenario ==
    /\ now = At(0, 23, 45, 0)
    /\ "c1" \in DOMAIN message_store
    /\ DOMAIN message_store["c1"] = {"1", "2", "3"}
    /\ message_store["c1"]["1"].timestamp.utc = At(0, 9, 0, 0)
    /\ message_store["c1"]["2"].timestamp.utc = At(0, 13, 0, 0)
    /\ message_store["c1"]["3"].timestamp.utc = At(0, 23, 30, 0)

\* C17: asked at t, get_messages(1, chat) answers with exactly the records
\* with midnight(t) <= timestamp <= t, midnight being that of the wall clock
\* of Moscow, and get_messages_last_hours(N, chat) with exactly those with
\* t - N hours <= timestamp <= t; with records at 09:00, 13:00 and 23:30 and
\* t = 23:45 the first answers with all three and the second, for N = 2, with
\* the record of 23:30 alone.
C17_MidnightAndLastHours ==
    /\ (lastQuery.fn = "get_messages" /\ lastQuery.arg = 1) =>
          AnswersWith(lastQuery.result, lastQuery.chat_id,
                      Between(lastQuery.chat_id, Midnight, now))
    /\ lastQuery.fn = "get_messages_last_hours" =>
          AnswersWith(lastQuery.result, lastQuery.chat_id,
                      Between(lastQuery.chat_id, now - lastQuery.arg * Hour,
                              now))
    /\ DayScenario =>
          /\ AnswersWith(get_messages(1, "c1"), "c1", {"1", "2", "3"})
          /\ AnswersWith(get_messages_last_hours(2, "c1"), "c1", {"3"})

C17_Witness ==
    /\ DayScenario
    /\ lastQuery.fn = "get_messages"
    /\ lastQuery.arg = 1
    /\ lastQuery.chat_id = "c1"
    /\ BagCardinality(lastQuery.result.lines) = 3
    /\ BagCardinality(get_messages_last_hours(2, "c1").lines) = 1

\* C18: what send_daily_reports hands to the summarizer for a chat is what
\* get_messages(1, chat), the query since midnight, answers at that moment.
C18_DailyReportSinceMidnight ==
    lastQuery.fn = "send_daily_reports" =>
        \A c \in DOMAIN lastQuery.result :
            lastQuery.result[c] = get_messages(1, c)

-----------------------------------------------------------------------------
(* Appends: properties *)

\* the store after the record of (c, m) was set: that record is the one of
\* the message, told in the zone of Moscow, and every other record of every
\* chat is the one it was
Appended(c, m, n, body, voice, d) ==
    /\ DOMAIN message_store' = DOMAIN message_store \cup {c}
    /\ DOMAIN message_store'[c] =
          (IF c \in DOMAIN message_store THEN DOMAIN message_store[c] ELSE {})
             \cup {m}
    /\ message_store'[c][m] =
          [sender |-> IF n = "" THEN "Anonim" ELSE n,
           text |-> [voice |-> voice, body |-> body],
           timestamp |-> [utc |-> d, tzinfo |-> moscow_tz]]
    /\ \A k \in DOMAIN message_store :
          /\ k # c => message_store'[k] = message_store[k]
          /\ k = c => \A i \in DOMAIN message_store[k] :
                         i # m => message_store'[k][i] = message_store[k][i]

\* save_messages_to_file was called once, not forced
SavedOnceUnforced ==
    /\ ~lastSave'.force
    /\ lastSave'.nth = (IF lastSave.wrote THEN 0 ELSE lastSave.nth) + 1
    /\ save_counter' = (save_counter + 1) % SAVE_BATCH_SIZE
    /\ caller' = "message_handler"

\* C19: a message taken in by message_handler leaves message_store with
\* exactly its record at (chat_id, message_id), in place of whatever record
\* that key had, leaves every other record of every chat as it was, and calls
\* save_messages_to_file exactly once, not forced.
C19_AppendFrame ==
    [][\E c \in QueryChats, m \in QueryIds, n \in AppendNames,
          x \in AppendTexts, d \in AppendDates, voice \in BOOLEAN :
           /\ Appended(c, m, n, x, voice, d)
           /\ SavedOnceUnforced]_vars

\* a record of c1 has been replaced by a voice message of a sender without
\* a first name, with the other records of c1 in place
C19_Witness ==
    /\ "c1" \in DOMAIN message_store
    /\ DOMAIN message_store["c1"] = QueryIds
    /\ message_store["c1"]["2"].text = [voice |-> TRUE, body |-> "yo"]
    /\ message_store["c1"]["2"].sender = "Anonim"
    /\ message_store["c1"]["1"].text.body = "hi"
    /\ message_store["c1"]["3"].text.body = "hi"
    /\ lastSave.nth = MaxQueryIds + 1
    /\ save_counter = MaxQueryIds + 1

-----------------------------------------------------------------------------
(* Time zones: properties *)

\* the records of the store, as (chat, message id) pairs
Records ==
    {<<c, m>> \in Chats \X MessageIds :
        c \in DOMAIN message_store /\ m \in DOMAIN message_store[c]}

\* a timestamp that knows its zone, three hours east of UTC as Moscow is:
\* the zone object itself, or the +03:00 that fromisoformat reads back
InMoscow(ts) ==
    /\ "tzinfo" \in DOMAIN ts
    /\ ts.tzinfo # None
    /\ \/ ts.tzinfo = moscow_tz
       \/ ts.tzinfo = [hours |-> MoscowOffset]

\* C20: in every state, the one right after a load of the file included,
\* the timestamp of every record of message_store knows its zone and tells
\* the time of Moscow.
C20_TimestampsInMoscow ==
    \A r \in Records : InMoscow(message_store[r[1]][r[2]].timestamp)

\* right after a load that brought records back
C20_Witness ==
    /\ lastLoad.loaded
    /\ pc = "idle"
    /\ Records # {}
    /\ \A r \in Records :
          message_store[r[1]][r[2]].timestamp.tzinfo = [hours |-> MoscowOffset]

-----------------------------------------------------------------------------
(* Threads: properties *)

\* the thread of a chat went over the cap while this step appended to it
PushedOver(c) ==
    /\ c \in DOMAIN turns'
    /\ Len(turns'[c]) > Len(Past(c))
    /\ Len(Seeded(c)) + Len(turns'[c]) - Len(Past(c)) > ThreadCap

\* C22: after every exchange with ChatGPT, one whose call raised after the
\* user's message went in included, no thread is left with more than 20
\* entries; a thread that the appends took over 20 is left with 11: the
\* system message and the 10 entries appended last, in their order.
C22_ThreadCapped ==
    [][\A c \in DOMAIN chat_threads' :
          /\ Len(chat_threads'[c]) <= 20
          /\ PushedOver(c) =>
                chat_threads'[c] =
                   <<[role |-> "system", content |-> CHATGPT_PROMPT]>>
                      \o SubSeq(turns'[c], Len(turns'[c]) - 9,
                                Len(turns'[c]))]_vars

C24_SeedFirst ==
    \A c \in DOMAIN chat_threads :
        /\ Len(chat_threads[c]) >= 1
        /\ chat_threads[c][1] = [role |-> "system", content |-> CHATGPT_PROMPT]

-----------------------------------------------------------------------------
(* The store during a run: properties *)

\* the keys of a store: (chat_id, message_id)
Keys(store) ==
    {<<c, m>> \in (Chats \cup {"c9"}) \X (MessageIds \cup QueryIds) :
        c \in DOMAIN store /\ m \in DOMAIN store[c]}

\* C21: while the process runs, no step takes a chat or a record out of
\* message_store: not a message taken in, a query, a save or a save that
\* fails, a poll of a song or anything done to the threads.
C21_StoreNeverShrinks ==
    [][(pc # "down" /\ pc' # "down") =>
          /\ DOMAIN message_store \subseteq DOMAIN message_store'
          /\ Keys(message_store) \subseteq Keys(message_store')]_vars

\* a run in which a text was stored, the tenth save failed at its write, the
\* store was queried, ChatGPT was asked and a song was polled
C21_Witness ==
    /\ pc = "idle"
    /\ Keys(message_store) # {}
    /\ lastSave.wrote
    /\ disk.store = Absent
    /\ lastQuery.fn = "get_messages"
    /\ "c1" \in DOMAIN chat_threads
    /\ npolls = 1

\* a thread that went over 20 entries, was trimmed and was asked again
C24_Witness ==
    /\ "c1" \in DOMAIN chat_threads
    /\ asked > 1
    /\ chat_threads["c1"][1].role = "system"
    /\ Len(turns["c1"]) > 20
    /\ Len(chat_threads["c1"]) = 13

\* C25: between two handlers, the entries of every thread behind the system
\* message go user, assistant, user, assistant, and so on, whatever exchanges
\* went before, those that raised and those that ended in a trim included.
C25_RolesAlternate ==
    \A c \in DOMAIN chat_threads :
        \A i \in 2..Len(chat_threads[c]) :
            chat_threads[c][i].role =
               IF i % 2 = 0 THEN "user" ELSE "assistant"

\* C26: chat_threads lives in memory only: what save_messages_to_file writes
\* is message_store and nothing of the threads, a start does not bring
\* threads back, and after it every chat is without a thread until it asks
\* again, whatever threads the process before had.
C26_ThreadsInMemoryOnly ==
    [][/\ (disk'.tmp # disk.tmp /\ disk'.tmp.exists) =>
             disk'.tmp.json = Serialize(message_store)
       /\ (pc # "down" /\ disk'.store # disk.store) =>
             /\ disk'.store.exists
             /\ disk'.store.json = Serialize(message_store)
       /\ pc = "down" => chat_threads' = <<>>]_vars

\* a process with a thread ended by main, and the next one has loaded the
\* store it saved and has no thread
C26_Witness ==
    /\ pc = "idle"
    /\ lastLoad.loaded
    /\ lastLoad.saved
    /\ lastLoad.threads # <<>>
    /\ message_store # <<>>
    /\ chat_threads = <<>>

SummaryFns == {"get_summary", "get_summary_last_hours", "get_top_summary"}

\* C27: whatever the summarizer raises, get_summary, get_summary_last_hours
\* and get_top_summary return: the caller gets the text about the failure and
\* no exception, and message_store is as it was.
C27_SummarizerFailureContained ==
    [][lastQuery'.fn \in SummaryFns =>
          /\ message_store' = message_store
          /\ "raised" \notin DOMAIN lastQuery'.result
          /\ lastQuery'.summarizer = "raises" =>
                lastQuery'.result.kind = "failure"]_vars

\* the summarizer raised over the messages of c1 for the top of the day
C27_Witness ==
    /\ lastQuery.fn = "get_top_summary"
    /\ lastQuery.arg = 1
    /\ lastQuery.chat_id = "c1"
    /\ lastQuery.summarizer = "raises"
    /\ lastQuery.result = [kind |-> "failure", text |-> "top"]
    /\ get_messages_last_hours(24, "c1") # EmptyString

\* the timestamps of the records of a chat, none for a chat not in the store
TimestampsOf(c) ==
    IF c \in DOMAIN message_store
    THEN {message_store[c][m].timestamp : m \in DOMAIN message_store[c]}
    ELSE {}

\* C28: /debug tells the number of the records the store holds for the chat,
\* as oldest the least of their timestamps and as newest the greatest; both
\* are missing exactly when the number is 0, as it is for a chat the store
\* does not know; and the store is as it was.
C28_DebugStats ==
    [][lastQuery'.fn = "debug_command" =>
          LET c == lastQuery'.chat_id
              info == lastQuery'.result
          IN /\ message_store' = message_store
             /\ info.message_count =
                   Cardinality({m \in MessageIds \cup QueryIds :
                                   /\ c \in DOMAIN message_store
                                   /\ m \in DOMAIN message_store[c]})
             /\ (info.oldest = None) <=> (info.message_count = 0)
             /\ (info.newest = None) <=> (info.message_count = 0)
             /\ c \notin DOMAIN message_store => info.message_count = 0
             /\ info.message_count # 0 =>
                   /\ \E t \in TimestampsOf(c) :
                         /\ \A u \in TimestampsOf(c) : t.utc <= u.utc
                         /\ info.oldest = strftime(t)
                   /\ \E t \in TimestampsOf(c) :
                         /\ \A u \in TimestampsOf(c) : u.utc <= t.utc
                         /\ info.newest = strftime(t)]_vars

\* /debug in a chat of three records, the first and the last hours apart
C28_Witness ==
    /\ lastQuery.fn = "debug_command"
    /\ lastQuery.chat_id = "c1"
    /\ lastQuery.result.message_count = 3
    /\ lastQuery.result.oldest = [minute |-> (At(0, 9, 0, 0) + 3 * Hour) \div 60]
    /\ lastQuery.result.newest =
          [minute |-> (At(0, 23, 45, 1) + 3 * Hour) \div 60]

\* C29: a poll that has begun comes to its decision, the task done with or
\* the next poll put on the queue, also when the status endpoint never
\* answers: the status check gives up after a fixed time, and that counts as
\* no status.
C29_PollEnds ==
    (checking # NotChecking \/ running # EmptyBag)
        ~> (checking = NotChecking /\ running = EmptyBag)

\* C30: every text that comes in is put into message_store; a text that is a
\* question is put into message_store and into the thread of its chat as
\* well.
C30_TextsReachTheStore ==
    [][/\ \A c \in ThreadChats, m \in MessageIds, n \in FirstNames,
             x \in Texts, d \in Dates :
             message_handler_text(c, m, n, x, d) =>
                 /\ c \in DOMAIN message_store'
                 /\ m \in DOMAIN message_store'[c]
                 /\ message_store'[c][m].text.body = x
       /\ \A c \in ThreadChats, ok \in BOOLEAN :
             message_handler_question(c, Serial(c), ok) =>
                 /\ c \in DOMAIN chat_threads'
                 /\ \E i \in DOMAIN chat_threads'[c] :
                       chat_threads'[c][i] =
                          [role |-> "user", content |-> Serial(c)]
                 /\ c \in DOMAIN message_store'
                 /\ message_store' # message_store]_vars

\* C31: while a call on the pool iterates message_store no message is put
\* into the store, and no call on the pool changes message_store,
\* chat_threads or song_tasks.
C31_NoAppendWhileIterating ==
    [][/\ (\E w \in workers : w.at = "iterating") =>
             message_store' = message_store
       /\ workers' # workers =>
             UNCHANGED <<message_store, chat_threads, song_tasks>>]_vars

\* the answer of the date query last put holds exactly the records of the
\* chat stamped from 00:00:00 to 23:59:59, Moscow time, of the day asked for
DateAnswerExact ==
    AnswersWith(lastQuery.result, lastQuery.chat_id,
                OnDay(lastQuery.chat_id, lastQuery.arg))

C34_EntryIffPollScheduled ==
    (running = EmptyBag /\ checking = NotChecking) =>
        \A t \in JobIds :
            t \in DOMAIN song_tasks
               <=> \E job \in DOMAIN job_queue : job.task_id = t

\* the task t1 has been delivered and is gone from song_tasks and from the
\* queue, after a poll of it had raised; t2 has its entry and its poll
C34_Witness ==
    /\ running = EmptyBag
    /\ submits = [t \in JobIds |-> 1]
    /\ "t1" \notin DOMAIN song_tasks
    /\ Pending(job_queue, "t1") = 0
    /\ "t2" \in DOMAIN song_tasks
    /\ Pending(job_queue, "t2") = 1
    /\ last.task_id = "t2"
    /\ last.raised # Returned
    /\ last.scheduled = <<ErrorDelay>>

\* C35: the submitter giving each task id once, a task id has at no time
\* more than one poll that stands in the queue, waits for its status or is
\* suspended at a send: two polls of one task never run across each other's
\* awaits.
C35_OnePollPerTask ==
    \A t \in JobIds :
        Pending(job_queue, t) + Suspended(running, t)
           + (IF checking # NotChecking /\ checking.task_id = t THEN 1 ELSE 0)
              <= 1

\* a poll of t1, polled before and put off, stands at a send of its delivery
\* and no other poll of t1 waits, while the poll of t2 waits in the queue
C35_Witness ==
    /\ Suspended(running, "t1") = 1
    /\ Pending(job_queue, "t1") = 0
    /\ hist["t1"] # "fresh"
    /\ Pending(job_queue, "t2") = 1
    /\ npolls >= 2

\* a task is done with: no entry of it in song_tasks, no poll of it to come
\* or under way
DoneWith(t) ==
    /\ t \notin DOMAIN song_tasks
    /\ Pending(job_queue, t) = 0
    /\ Suspended(running, t) = 0

Unsaved ==
    {<<c, m>> \in Chats \X BatchIds :
        /\ c \in DOMAIN message_store
        /\ m \in DOMAIN message_store[c]
        /\ ~ /\ disk.store.exists
             /\ c \in DOMAIN disk.store.json
             /\ m \in DOMAIN disk.store.json[c]
             /\ disk.store.json[c][m] = Serialize(message_store)[c][m]}

\* C37: every write going through, between two handlers at most 9
\* (SAVE_BATCH_SIZE - 1) messages have been put into the store since the file
\* last held what the store holds, and when main has ended with its forced
\* save the file holds what the store holds.
C37_AtMostNineUnsaved ==
    /\ pc = "idle" => Cardinality(Unsaved) <= 9
    /\ (pc = "down" /\ caller = "main") =>
          disk.store = File(Serialize(message_store), TRUE)

\* nine messages since the start of a process that had loaded one from the
\* file: the file still holds the one
C37_Witness ==
    /\ pc = "idle"
    /\ lastLoad = NoLoad
    /\ save_counter = 9
    /\ Cardinality(Unsaved) = 9
    /\ disk.store.exists
    /\ "c1" \in DOMAIN disk.store.json
    /\ DOMAIN disk.store.json["c1"] = {"1"}

\* C38: a text that is the order-a-song button puts its chat into the
\* custom-song wait mode, and a text that arrives in that mode is consumed as
\* the request: the wait flag is gone after the step whatever became of the
\* song, and the store is as it was
C38_OrderButtonStartsWait ==
    [][\A u \in Users, c \in Chats, n \in FirstNames, d \in Dates :
          /\ message_handler(u, c, NextId(c), n, OrderButton, d)
                => /\ <<u, c>> \in custom_song_wait'
                   /\ message_store' = message_store
          /\ \A x \in HandlerTexts :
                (<<u, c>> \in custom_song_wait
                 /\ message_handler(u, c, NextId(c), n, x, d))
                => /\ <<u, c>> \notin custom_song_wait'
                   /\ message_store' = message_store]_vars


\* the texts of a chat that are in the store
StoredTexts(store, chat_id) ==
    IF chat_id \in DOMAIN store
    THEN Cardinality({m \in DOMAIN store[chat_id] :
                         ~store[chat_id][m].text.voice})
    ELSE 0

\* every button of get_main_keyboard()
MainKeyboard == KeyboardButtons \cup {OrderButton}

\* C39: with AUTO_RESPONSE_INTERVAL = N > 0 a text that is stored is put to
\* ChatGPT unasked exactly when it is the N-th, 2N-th, ... text stored for
\* its chat since the process started, and it is then in the store and in
\* the thread; the text of a keyboard button and a voice message leave the
\* counter and ChatGPT alone, and a question leaves the counter alone
C39_EveryNthTextAnswered ==
    [][\A u \in Users, c \in ThreadChats, n \in FirstNames, d \in Dates :
          /\ \A x \in HandlerTexts :
                (/\ AUTO_RESPONSE_INTERVAL > 0
                 /\ message_handler(u, c, NextId(c), n, x, d))
                => IF x \in MainKeyboard
                   THEN /\ message_counters' = message_counters
                        /\ asked' = asked
                   ELSE IF prompt_of(x) # ""
                   THEN message_counters' = message_counters
                   ELSE /\ c \in DOMAIN message_store'
                        /\ NextId(c) \in DOMAIN message_store'[c]
                        /\ message_store'[c][NextId(c)].text.body = x
                        /\ (asked' = asked + 1)
                              <=> (StoredTexts(message_store', c)
                                      % AUTO_RESPONSE_INTERVAL = 0)
                        /\ asked' \in {asked, asked + 1}
                        /\ asked' = asked + 1
                              => /\ c \in DOMAIN chat_threads'
                                 /\ \E k \in DOMAIN chat_threads'[c] :
                                       chat_threads'[c][k] = Turn("user", x)
          /\ \A x \in Texts :
                (/\ AUTO_RESPONSE_INTERVAL > 0
                 /\ message_handler_voice(c, NextId(c), n, x, d))
                => /\ message_counters' = message_counters
                   /\ asked' = asked]_vars

====
